---- MODULE Spec2Model ----
(***************************************************************************)
(* The MCP context/conversation broker of agent_monitor (src/src/mcp):     *)
(* protocol.py, memory_store.py, context_manager.py, conversation.py and   *)
(* mcp_server.py.  The in-memory caches and the SQLite tables are the      *)
(* state; every public method is an operator from a state record to a      *)
(* state record and a return value, composed exactly as the methods call   *)
(* each other; an action applies one public call at the current clock.     *)
(***************************************************************************)
EXTENDS Integers, Sequences, FiniteSets, TLC

VARIABLES
    clock,                 \* datetime.now(), in minutes
    active_contexts,       \* ContextManager.active_contexts
    registered_agents,     \* ContextManager.registered_agents
    active_conversations,  \* ConversationManager.active_conversations
    tbl_contexts,          \* MemoryStore table contexts
    tbl_agents,            \* MemoryStore table agents
    tbl_conversations,     \* MemoryStore table conversations
    tbl_messages,          \* MemoryStore table messages
    uuid_ctx,              \* number of ContextData ids drawn from uuid4
    uuid_conv,             \* number of Conversation ids drawn from uuid4
    db_down,               \* sqlite3 raises on every statement of the store
    gathered,              \* the process_message coroutines running together
    last,                  \* the last call and what it returned
    hist                   \* history of the run (what the claims talk about)

vars == <<clock, active_contexts, registered_agents, active_conversations,
          tbl_contexts, tbl_agents, tbl_conversations, tbl_messages,
          uuid_ctx, uuid_conv, db_down, gathered, last, hist>>

----------------------------------------------------------------------------
(* Bounds of the model *)

MaxClock == 2      \* minutes that pass in a run
MaxCalls == 4      \* calls made in a run
MaxDispatch == 2   \* messages submitted in a run of the dispatch specification
MaxStorageCalls == 3  \* calls made in a run of the storage specification

----------------------------------------------------------------------------
(* Values *)

AgentIds == {"A", "B"}
ServerId == "mcp_server"

CtxId(n) == <<"ctx", n>>
UnknownCtx == <<"ctx", 0>>
ConvUuid(n) == <<"uuid", n>>
ClientConv == <<"client", 0>>      \* a conversation id chosen by a client
NoConv == <<"none", 0>>            \* conversation_id None
Unhashable == <<"unhashable", 0>>  \* a JSON list or object given as an id
NoCtx == <<"none", 1>>             \* context_id None or '' (falsy)

\* No process_message coroutine is running.
NoCoroutines == [raws |-> <<>>, pc |-> <<>>, base |-> {}]

Put(f, k, v) == [x \in (DOMAIN f) \cup {k} |-> IF x = k THEN v ELSE f[x]]
Del(f, k) == [x \in (DOMAIN f) \ {k} |-> f[x]]
Empty == [x \in {} |-> x]
Get(f, k, d) == IF k \in DOMAIN f THEN f[k] ELSE d
Count(seq, x) == Cardinality({i \in DOMAIN seq : seq[i] = x})
InSeq(x, seq) == \E i \in DOMAIN seq : seq[i] = x

\* A local variable: v is evaluated once and Op applied to its value.
With(v, Op(_)) == CHOOSE y \in {Op(x) : x \in {v}} : TRUE

\* The elements of a list.
Range(list) == {list[i] : i \in DOMAIN list}

\* The fields of the managers and of the store, as one record.
Cur == [active_contexts |-> active_contexts,
        registered_agents |-> registered_agents,
        active_conversations |-> active_conversations,
        tbl_contexts |-> tbl_contexts,
        tbl_agents |-> tbl_agents,
        tbl_conversations |-> tbl_conversations,
        tbl_messages |-> tbl_messages,
        uuid_ctx |-> uuid_ctx,
        uuid_conv |-> uuid_conv,
        db_down |-> db_down,
        gathered |-> gathered]

----------------------------------------------------------------------------
(* protocol.py *)

\* ContextData.is_expired
is_expired(c, now) == \E e \in c.expires_at : now > e

----------------------------------------------------------------------------
(* memory_store.py: every method opens the database, runs its statements *)
(* and commits, inside try / except Exception: when sqlite3 raises, the    *)
(* transaction is rolled back and the method returns its default.          *)

MS_store_context_unguarded(s, c) ==
    [s |-> [s EXCEPT !.tbl_contexts = Put(@, c.context_id, c)], r |-> TRUE]

MS_store_context(s, c) ==
    IF s.db_down THEN [s |-> s, r |-> FALSE]
    ELSE [s |-> [s EXCEPT !.tbl_contexts =
                    Put(@, c.context_id, [c EXCEPT !.metadata_of = c.context_id])],
          r |-> TRUE]

MS_delete_context(s, id) ==
    IF s.db_down THEN [s |-> s, r |-> FALSE]
    ELSE [s |-> [s EXCEPT !.tbl_contexts = Del(@, id)],
          r |-> id \in DOMAIN s.tbl_contexts]

MS_retrieve_context(s, id, now) ==
    IF s.db_down \/ id \notin DOMAIN s.tbl_contexts
    THEN [s |-> s, r |-> {}]
    ELSE IF is_expired(s.tbl_contexts[id], now)
         THEN [s |-> MS_delete_context(s, id).s, r |-> {}]
         ELSE [s |-> s, r |-> {s.tbl_contexts[id]}]

\* The rows of the given type; the expired ones are deleted, the others
\* returned (a set here: ContextOrder gives the ORDER BY).
MS_retrieve_contexts_by_type(s, ctype, now) ==
    LET rows == {s.tbl_contexts[i] : i \in DOMAIN s.tbl_contexts}
        typed == {c \in rows : c.context_type = ctype}
        dead == {c.context_id : c \in {x \in typed : is_expired(x, now)}}
    IN IF s.db_down THEN [s |-> s, r |-> {}]
       ELSE [s |-> [s EXCEPT !.tbl_contexts =
                       [i \in (DOMAIN @) \ dead |-> @[i]]],
             r |-> {c \in typed : ~is_expired(c, now)}]

\* DELETE FROM contexts WHERE expires_at IS NOT NULL AND expires_at < now
MS_cleanup_expired_contexts(s, now) ==
    LET dead == {i \in DOMAIN s.tbl_contexts :
                    \E e \in s.tbl_contexts[i].expires_at : e < now}
    IN IF s.db_down THEN [s |-> s, r |-> 0]
       ELSE [s |-> [s EXCEPT !.tbl_contexts =
                       [i \in (DOMAIN @) \ dead |-> @[i]]],
             r |-> Cardinality(dead)]

\* A store_message that writes INSERT OR REPLACE.
MS_store_message_replacing(s, m) ==
    IF s.db_down
    THEN [s |-> s, r |-> FALSE]
    ELSE [s |-> [s EXCEPT !.tbl_messages =
                    Put(@, m.id, [rowid |-> Cardinality(DOMAIN @) + 1] @@ m)],
          r |-> TRUE]

\* INSERT INTO messages: message_id is the primary key, a second insert of
\* the same id raises IntegrityError, which is caught and answered False.
\* Rows are never deleted, so the rowid of a new row is the number of rows.
MS_store_message(s, m) ==
    IF s.db_down \/ m.id \in DOMAIN s.tbl_messages
    THEN [s |-> s, r |-> FALSE]
    ELSE [s |-> [s EXCEPT !.tbl_messages =
                    Put(@, m.id, [rowid |-> Cardinality(DOMAIN @) + 1] @@ m)],
          r |-> TRUE]

\* A datetime is its wall-clock reading (timestamp) and its UTC offset
\* (utcoffset, {} for a naive datetime such as datetime.now()), in the same
\* unit.  The timestamp column is TEXT and holds isoformat(): the reading
\* followed by the offset, '' for none, '+00:00', '+01:00'.  TextRank is the
\* place of the offset suffix in the order of strings.
TextRank(utcoffset) == IF utcoffset = {} THEN 0 ELSE 1 + CHOOSE k \in utcoffset : TRUE

\* ORDER BY timestamp ASC compares the texts: the reading, then the suffix;
\* rows of equal text come in the order of their insertion (the rowid).
MessageBefore(a, b) ==
    \/ a.timestamp < b.timestamp
    \/ /\ a.timestamp = b.timestamp
       /\ TextRank(a.utcoffset) < TextRank(b.utcoffset)
    \/ /\ a.timestamp = b.timestamp
       /\ TextRank(a.utcoffset) = TextRank(b.utcoffset)
       /\ a.rowid < b.rowid

RECURSIVE MessageOrder(_)
MessageOrder(rows) ==
    IF rows = {} THEN <<>>
    ELSE With(CHOOSE m \in rows : \A o \in rows \ {m} : MessageBefore(m, o),
              LAMBDA first : <<first>> \o MessageOrder(rows \ {first}))

\* The first n elements of a sequence (LIMIT n).
Take(seq, n) == SubSeq(seq, 1, IF n < Len(seq) THEN n ELSE Len(seq))

\* The default of the limit parameter of get_conversation_messages.
DefaultLimit == 100

\* SELECT ... WHERE conversation_id = ? ORDER BY timestamp ASC LIMIT ?: the
\* ids of the rows it returns.  A list or object cannot be bound as the
\* parameter; that error, like a failing connection, is caught and answered
\* with the empty list.
MS_get_conversation_messages(s, conversation_id, limit) ==
    IF s.db_down \/ conversation_id = Unhashable THEN <<>>
    ELSE With(Take(MessageOrder({s.tbl_messages[i] : i \in
                        {j \in DOMAIN s.tbl_messages :
                            s.tbl_messages[j].conversation_id = conversation_id}}),
                   limit),
              LAMBDA rows : [i \in DOMAIN rows |-> rows[i].id])

MS_store_conversation(s, cv) ==
    IF s.db_down THEN [s |-> s, r |-> FALSE]
    ELSE [s |-> [s EXCEPT !.tbl_conversations =
                    Put(@, cv.conversation_id, cv)],
          r |-> TRUE]

MS_get_conversation(s, id) ==
    IF ~s.db_down /\ id \in DOMAIN s.tbl_conversations
    THEN {s.tbl_conversations[id]} ELSE {}

\* sorted(key=updated_at, reverse=True) of a list: the later update first, and
\* conversations of equal updated_at in the order they have in the list.
ByUpdate(list) ==
    With([i \in DOMAIN list |->
             Cardinality({j \in DOMAIN list :
                 \/ list[j].updated_at > list[i].updated_at
                 \/ list[j].updated_at = list[i].updated_at /\ j < i})],
         LAMBDA before :
             [p \in DOMAIN list |-> list[CHOOSE i \in DOMAIN list : before[i] = p - 1]])

\* The rows of a table or the values of a dict, as a list; the order is the
\* one TLC keeps the ids in.
Listed(table) ==
    With([i \in DOMAIN table |->
             Cardinality({j \in DOMAIN table : j # i /\ j = CHOOSE x \in {i, j} : TRUE})],
         LAMBDA before :
             [p \in 1..Cardinality(DOMAIN table) |->
                 table[CHOOSE i \in DOMAIN table : before[i] = p - 1]])

\* ORDER BY updated_at DESC
ConversationOrder(table) == ByUpdate(Listed(table))

\* The default of the limit parameter of MemoryStore.list_conversations.
ListLimit == 50

\* SELECT ... FROM conversations [WHERE participants LIKE '%"id"%']
\* ORDER BY updated_at DESC LIMIT ?; participant_id "" stands for None.
MS_list_conversations(s, participant_id, limit) ==
    IF s.db_down THEN <<>>
    ELSE Take(SelectSeq(ConversationOrder(s.tbl_conversations), LAMBDA c :
                  participant_id = "" \/ InSeq(participant_id, c.participants)),
              limit)

RECURSIVE AgentOrder(_)
\* ORDER BY last_seen DESC, and sorted(key=last_seen, reverse=True).
AgentOrder(S) ==
    IF S = {} THEN <<>>
    ELSE With(CHOOSE a \in S : \A b \in S : a.last_seen >= b.last_seen,
              LAMBDA first : <<first>> \o AgentOrder(S \ {first}))

\* SELECT ... FROM agents [WHERE agent_type = ?] ORDER BY last_seen DESC;
\* agent_type "" stands for None.
MS_list_agents(s, agent_type) ==
    IF s.db_down THEN <<>>
    ELSE AgentOrder({a \in {s.tbl_agents[i] : i \in DOMAIN s.tbl_agents} :
                        agent_type = "" \/ a.agent_type = agent_type})

MS_store_agent(s, a) ==
    IF s.db_down THEN [s |-> s, r |-> FALSE]
    ELSE [s |-> [s EXCEPT !.tbl_agents = Put(@, a.agent_id, a)], r |-> TRUE]

MS_get_agent(s, id) ==
    IF ~s.db_down /\ id \in DOMAIN s.tbl_agents
    THEN {s.tbl_agents[id]} ELSE {}

\* stats = {} is filled inside the try: nothing is in it when the first
\* statement raises.
MS_get_statistics(s) ==
    IF s.db_down THEN Empty
    ELSE [total_contexts |-> Cardinality(DOMAIN s.tbl_contexts),
          total_messages |-> Cardinality(DOMAIN s.tbl_messages),
          total_conversations |-> Cardinality(DOMAIN s.tbl_conversations),
          total_agents |-> Cardinality(DOMAIN s.tbl_agents),
          active_conversations |->
             Cardinality({i \in DOMAIN s.tbl_conversations :
                             s.tbl_conversations[i].status = "active"}),
          active_agents |->
             Cardinality({i \in DOMAIN s.tbl_agents :
                             s.tbl_agents[i].status = "active"})]

----------------
(* context_manager.py *)

\* A ContextData as the manager builds it.  data and metadata are mappings
\* with these keys; "" and {} stand for an absent key, data.shape = "scalar"
\* for a data value that is no mapping (a JSON string or number).
NoData == [shape |-> "mapping", val |-> "", conversation_id |-> NoConv,
           started_by |-> "", last_message_from |-> "", last_message_at |-> {},
           ended_by |-> "", ended_at |-> {}]

\* metadata_of names the dict object that is the metadata of the context:
\* `metadata or {}` keeps the dict the caller passed, so two contexts stored
\* with the same dict have one metadata object; it is named after the first
\* context that got it.  A context made from a row has a dict of its own.
NewContext(id, ctype, data, shared_with, expires_at, now) ==
    [context_id |-> id, context_type |-> ctype, data |-> data,
     metadata |-> [shared_with |-> shared_with, last_shared |-> {},
                   last_updated |-> {}],
     metadata_of |-> id,
     expires_at |-> expires_at, created_at |-> now]

\* The cache after the metadata dict of the context c2 has been written to:
\* every cached context that has this dict as its metadata shows the change.
Aliased(cache, c2) ==
    [i \in DOMAIN cache |->
        IF cache[i].metadata_of = c2.metadata_of
        THEN [cache[i] EXCEPT !.metadata = c2.metadata]
        ELSE cache[i]]

\* sorted(..., key=created_at, reverse=True) is stable: contexts created in
\* the same minute keep the order of the dict they were taken from, the
\* cached ones (in insertion order, which is the order of creation) before
\* the ones only the store has.
ContextBefore(a, b, cached) ==
    \/ a.created_at > b.created_at
    \/ /\ a.created_at = b.created_at
       /\ \/ a.context_id \in cached /\ b.context_id \notin cached
          \/ /\ (a.context_id \in cached) = (b.context_id \in cached)
             /\ a.context_id[2] < b.context_id[2]

RECURSIVE ContextOrder(_, _)
ContextOrder(S, cached) ==
    IF S = {} THEN <<>>
    ELSE With(CHOOSE c \in S : \A d \in S \ {c} : ContextBefore(c, d, cached),
              LAMBDA first : <<first>> \o ContextOrder(S \ {first}, cached))

NewAgent(id, atype, now) ==
    [agent_id |-> id, agent_type |-> atype, status |-> "active",
     last_seen |-> now]

CM_register_agent(s, id, atype, now) ==
    LET a == NewAgent(id, atype, now)
    IN MS_store_agent([s EXCEPT !.registered_agents = Put(@, id, a)], a)

\* An unregister_agent that deletes the stored record as well.
CM_unregister_agent_deleting(s, id) ==
    IF id \in DOMAIN s.registered_agents
    THEN [s |-> [s EXCEPT !.registered_agents = Del(@, id),
                          !.tbl_agents = Del(@, id)], r |-> TRUE]
    ELSE [s |-> s, r |-> FALSE]

CM_unregister_agent(s, id) ==
    IF id \in DOMAIN s.registered_agents
    THEN [s |-> [s EXCEPT !.registered_agents = Del(@, id)], r |-> TRUE]
    ELSE [s |-> s, r |-> FALSE]

\* ContextManager.list_agents: the cached agents and the stored ones that
\* are not cached, filtered; agent_type and status "" stand for None.
CM_list_agents(s, agent_type, status) ==
    With(MS_list_agents(s, agent_type), LAMBDA stored :
      AgentOrder(
        {a \in {s.registered_agents[i] : i \in DOMAIN s.registered_agents}
                \cup {stored[i] : i \in {j \in DOMAIN stored :
                          stored[j].agent_id \notin DOMAIN s.registered_agents}} :
            /\ agent_type = "" \/ a.agent_type = agent_type
            /\ status = "" \/ a.status = status}))

\* An update_agent_status that looks the agent up in the store when it is
\* not in the cache.
CM_update_agent_status_loading(s, id, status, now) ==
    IF id \in (DOMAIN s.registered_agents) \cup (DOMAIN s.tbl_agents)
    THEN LET a == [(IF id \in DOMAIN s.registered_agents
                    THEN s.registered_agents[id] ELSE s.tbl_agents[id]) EXCEPT
                      !.status = status, !.last_seen = now]
         IN MS_store_agent([s EXCEPT !.registered_agents = Put(@, id, a)], a)
    ELSE [s |-> s, r |-> FALSE]

CM_update_agent_status(s, id, status, now) ==
    IF id \in DOMAIN s.registered_agents
    THEN LET a == [s.registered_agents[id] EXCEPT
                      !.status = status, !.last_seen = now]
         IN MS_store_agent([s EXCEPT !.registered_agents = Put(@, id, a)], a)
    ELSE [s |-> s, r |-> FALSE]

CM_get_agent(s, id) ==
    IF id \in DOMAIN s.registered_agents
    THEN [s |-> s, r |-> {s.registered_agents[id]}]
    ELSE LET a == MS_get_agent(s, id)
         IN [s |-> [s EXCEPT !.registered_agents =
                        IF a = {} THEN @
                        ELSE Put(@, id, CHOOSE x \in a : TRUE)],
             r |-> a]

\* An expiry that is never set.
ExpiresAt_never(expires_in_minutes, now) == {}

\* expires_in_minutes is {} when None, {n} when n; `if expires_in_minutes:`
\* takes 0 for absent.
ExpiresAt(expires_in_minutes, now) ==
    {now + n : n \in {m \in expires_in_minutes : m # 0}}

CM_store_context(s, ctype, data, shared_with, expires_in_minutes, now) ==
    With(NewContext(CtxId(s.uuid_ctx + 1), ctype, data, shared_with,
                    ExpiresAt(expires_in_minutes, now), now),
         LAMBDA c :
           [s |-> MS_store_context(
                      [s EXCEPT !.uuid_ctx = @ + 1,
                                !.active_contexts = Put(@, c.context_id, c)],
                      c).s,
            r |-> c])

\* store_context called with the metadata dict that was passed when the
\* cached context `other` was stored (a dict with a key of the caller's, so
\* that `metadata or {}` keeps it): the new context has that dict, with what
\* has been written to it since, as its metadata.
CM_store_context_same_metadata(s, ctype, data, other, expires_in_minutes, now) ==
    With([NewContext(CtxId(s.uuid_ctx + 1), ctype, data, <<>>,
                     ExpiresAt(expires_in_minutes, now), now)
             EXCEPT !.metadata = s.active_contexts[other].metadata,
                    !.metadata_of = s.active_contexts[other].metadata_of],
         LAMBDA c :
           [s |-> MS_store_context(
                      [s EXCEPT !.uuid_ctx = @ + 1,
                                !.active_contexts = Put(@, c.context_id, c)],
                      c).s,
            r |-> c])

\* A retrieve_context that answers None for an expired cached context and
\* leaves it where it is.
CM_retrieve_context_no_evict(s, id, now) ==
    IF id \in DOMAIN s.active_contexts
    THEN [s |-> s,
          r |-> {c \in {s.active_contexts[id]} : ~is_expired(c, now)}]
    ELSE With(MS_retrieve_context(s, id, now), LAMBDA q :
           With({c \in q.r : ~is_expired(c, now)}, LAMBDA ok :
             [s |-> [q.s EXCEPT !.active_contexts =
                        IF ok = {} THEN @
                        ELSE Put(@, id, CHOOSE c \in ok : TRUE)],
              r |-> ok]))

CM_retrieve_context(s, id, now) ==
    IF id \in DOMAIN s.active_contexts /\ ~is_expired(s.active_contexts[id], now)
    THEN [s |-> s, r |-> {s.active_contexts[id]}]
    ELSE With(MS_retrieve_context(
                  IF id \in DOMAIN s.active_contexts
                  THEN MS_delete_context(
                           [s EXCEPT !.active_contexts = Del(@, id)], id).s
                  ELSE s, id, now),
              LAMBDA q :
                With({c \in q.r : ~is_expired(c, now)}, LAMBDA ok :
                  [s |-> [q.s EXCEPT !.active_contexts =
                             IF ok = {} THEN @
                             ELSE Put(@, id, CHOOSE c \in ok : TRUE)],
                   r |-> ok]))

\* The cached contexts of the type, expired or not.
ActiveOfType_unfiltered(s, ctype, now) ==
    {c \in {s.active_contexts[i] : i \in DOMAIN s.active_contexts} :
        c.context_type = ctype}

\* The cached contexts of the type that have not expired.
ActiveOfType(s, ctype, now) ==
    {c \in {s.active_contexts[i] : i \in DOMAIN s.active_contexts} :
        c.context_type = ctype /\ ~is_expired(c, now)}

CM_retrieve_contexts_by_type(s, ctype, now) ==
    With(ActiveOfType(s, ctype, now), LAMBDA active :
      With({c.context_id : c \in active}, LAMBDA ids :
        With(MS_retrieve_contexts_by_type(s, ctype, now), LAMBDA q :
          With({c \in q.r : c.context_id \notin ids}, LAMBDA fresh :
            [s |-> [q.s EXCEPT !.active_contexts =
                       [i \in (DOMAIN @) \cup {c.context_id : c \in fresh} |->
                           IF i \in {c.context_id : c \in fresh}
                           THEN CHOOSE c \in fresh : c.context_id = i
                           ELSE @[i]]],
             r |-> ContextOrder(active \cup fresh, ids)]))))

CM_delete_context(s, id) ==
    MS_delete_context([s EXCEPT !.active_contexts = Del(@, id)], id)

\* share_context_with_agent without `if agent_id not in shared_with`.
CM_share_context_with_agent_always(s, context_id, agent_id, now) ==
    With(CM_retrieve_context(s, context_id, now), LAMBDA q :
      IF q.r = {} THEN [s |-> q.s, r |-> FALSE]
      ELSE With(CM_get_agent(q.s, agent_id), LAMBDA g :
             IF g.r = {} THEN [s |-> g.s, r |-> FALSE]
             ELSE With([(CHOOSE x \in q.r : TRUE) EXCEPT
                          !.metadata.shared_with = Append(@, agent_id),
                          !.metadata.last_shared = {now}],
                       LAMBDA c2 :
                         [s |-> MS_store_context(
                                    [g.s EXCEPT !.active_contexts =
                                        Put(@, context_id, c2)], c2).s,
                          r |-> TRUE])))

\* share_context_with_agent without `if not agent: return False`.
CM_share_context_with_agent_any_agent(s, context_id, agent_id, now) ==
    With(CM_retrieve_context(s, context_id, now), LAMBDA q :
      IF q.r = {} THEN [s |-> q.s, r |-> FALSE]
      ELSE With(CM_get_agent(q.s, agent_id), LAMBDA g :
             With(CHOOSE x \in q.r : TRUE, LAMBDA c :
               IF InSeq(agent_id, c.metadata.shared_with)
               THEN [s |-> g.s, r |-> FALSE]
               ELSE With([c EXCEPT
                            !.metadata.shared_with = Append(@, agent_id),
                            !.metadata.last_shared = {now}],
                         LAMBDA c2 :
                           [s |-> MS_store_context(
                                      [g.s EXCEPT !.active_contexts =
                                          Put(@, context_id, c2)], c2).s,
                            r |-> TRUE]))))

CM_share_context_with_agent(s, context_id, agent_id, now) ==
    With(CM_retrieve_context(s, context_id, now), LAMBDA q :
      IF q.r = {} THEN [s |-> q.s, r |-> FALSE]
      ELSE With(CM_get_agent(q.s, agent_id), LAMBDA g :
             With(CHOOSE x \in q.r : TRUE, LAMBDA c :
               IF g.r = {} THEN [s |-> g.s, r |-> FALSE]
               ELSE IF InSeq(agent_id, c.metadata.shared_with)
                    THEN [s |-> g.s, r |-> FALSE]
                    ELSE With([c EXCEPT
                                 !.metadata.shared_with = Append(@, agent_id),
                                 !.metadata.last_shared = {now}],
                              LAMBDA c2 :
                                [s |-> MS_store_context(
                                           [g.s EXCEPT !.active_contexts =
                                               Aliased(Put(@, context_id, c2), c2)],
                                           c2).s,
                                 r |-> TRUE]))))

KnownTypes == <<"general", "conversation", "system", "agent_state">>

RECURSIVE StoredOfTypes(_, _, _)
\* MemoryStore.retrieve_contexts_by_type for each type of the list in turn.
StoredOfTypes(s, types, now) ==
    IF types = <<>> THEN [s |-> s, r |-> {}]
    ELSE With(MS_retrieve_contexts_by_type(s, Head(types), now), LAMBDA q :
           With(StoredOfTypes(q.s, Tail(types), now), LAMBDA rest :
             [s |-> rest.s, r |-> q.r \cup rest.r]))

CM_get_agent_contexts(s, agent_id, now) ==
    With(StoredOfTypes(s, KnownTypes, now), LAMBDA q :
      [s |-> q.s,
       r |-> ContextOrder(
                {c \in {s.active_contexts[i] : i \in DOMAIN s.active_contexts}
                        \cup {x \in q.r :
                                x.context_id \notin DOMAIN s.active_contexts} :
                    /\ ~is_expired(c, now)
                    /\ InSeq(agent_id, c.metadata.shared_with)},
                DOMAIN s.active_contexts)])

\* A create_conversation_context whose context expires after a minute.
CM_create_conversation_context_expiring(s, conversation_id, participants, started_by, now) ==
    CM_store_context(s, "conversation",
        [NoData EXCEPT !.conversation_id = conversation_id,
                       !.started_by = started_by],
        participants, {1}, now)

CM_create_conversation_context(s, conversation_id, participants, started_by, now) ==
    CM_store_context(s, "conversation",
        [NoData EXCEPT !.conversation_id = conversation_id,
                       !.started_by = started_by],
        participants, {}, now)

\* dict.update: the keys of the update replace those of the data.
Merge(data, updates) ==
    [k \in DOMAIN data |-> IF k \in DOMAIN updates THEN updates[k] ELSE data[k]]

RECURSIVE UpdateFirst(_, _, _, _, _)
\* The loop of update_conversation_context over the contexts found:
\* context.data.get raises AttributeError on data that is no mapping.
UpdateFirst(s, found, conversation_id, updates, now) ==
    IF found = <<>> THEN [s |-> s, r |-> FALSE, exc |-> FALSE]
    ELSE With(Head(found), LAMBDA c :
           IF c.data.shape # "mapping"
           THEN [s |-> s, r |-> FALSE, exc |-> TRUE]
           ELSE IF c.data.conversation_id = conversation_id
                THEN With([c EXCEPT !.data = Merge(@, updates),
                                    !.metadata.last_updated = {now}],
                          LAMBDA c2 :
                            [s |-> MS_store_context(
                                       [s EXCEPT !.active_contexts =
                                           Aliased(Put(@, c.context_id, c2), c2)],
                                       c2).s,
                             r |-> TRUE, exc |-> FALSE])
                ELSE UpdateFirst(s, Tail(found), conversation_id, updates, now))

CM_update_conversation_context(s, conversation_id, updates, now) ==
    With(CM_retrieve_contexts_by_type(s, "conversation", now), LAMBDA q :
      UpdateFirst(q.s, q.r, conversation_id, updates, now))

CM_cleanup_expired_contexts(s, now) ==
    With({i \in DOMAIN s.active_contexts :
             is_expired(s.active_contexts[i], now)},
         LAMBDA expired_ids :
           With(MS_cleanup_expired_contexts(
                    [s EXCEPT !.active_contexts =
                        [i \in (DOMAIN @) \ expired_ids |-> @[i]]], now),
                LAMBDA q : [s |-> q.s, r |-> Cardinality(expired_ids) + q.r]))

CM_get_statistics(s) ==
    [active_contexts |-> Cardinality(DOMAIN s.active_contexts),
     registered_agents |-> Cardinality(DOMAIN s.registered_agents),
     agent_types |->
        [t \in {s.registered_agents[i].agent_type :
                    i \in DOMAIN s.registered_agents} |->
            Cardinality({i \in DOMAIN s.registered_agents :
                            s.registered_agents[i].agent_type = t})],
     store |-> MS_get_statistics(s)]

----------------------------------------------------------------------------
(* conversation.py *)

NewConversation(id, title, participants, auto_created, now) ==
    [conversation_id |-> id, title |-> title, participants |-> participants,
     created_at |-> now, updated_at |-> now, status |-> "active",
     auto_created |-> auto_created]

\* Conversation.add_participant
add_participant(cv, agent_id, now) ==
    IF InSeq(agent_id, cv.participants) THEN cv
    ELSE [cv EXCEPT !.participants = Append(@, agent_id), !.updated_at = now]

\* Conversation.remove_participant: list.remove takes the first occurrence.
remove_participant(cv, agent_id, now) ==
    IF ~InSeq(agent_id, cv.participants) THEN cv
    ELSE With(CHOOSE k \in DOMAIN cv.participants :
                  /\ cv.participants[k] = agent_id
                  /\ \A j \in 1..(k - 1) : cv.participants[j] # agent_id,
              LAMBDA i :
                [cv EXCEPT !.participants =
                               SubSeq(@, 1, i - 1) \o SubSeq(@, i + 1, Len(@)),
                           !.updated_at = now])

\* The conversation gets an id of its own from uuid4, whatever the caller
\* was looking for.
CV_create_conversation(s, title, participants, auto_created, now) ==
    With(NewConversation(ConvUuid(s.uuid_conv + 1), title, participants,
                         auto_created, now),
         LAMBDA cv :
           [s |-> MS_store_conversation(
                      [s EXCEPT !.uuid_conv = @ + 1,
                                !.active_conversations =
                                    Put(@, cv.conversation_id, cv)],
                      cv).s,
            r |-> cv])

\* `conversation_id in self.active_conversations` raises TypeError for an
\* id that cannot be hashed.
CV_get_conversation(s, id) ==
    IF id = Unhashable THEN [s |-> s, r |-> {}, exc |-> TRUE]
    ELSE IF id \in DOMAIN s.active_conversations
         THEN [s |-> s, r |-> {s.active_conversations[id]}, exc |-> FALSE]
         ELSE With(MS_get_conversation(s, id), LAMBDA st :
                [s |-> [s EXCEPT !.active_conversations =
                           IF st = {} THEN @
                           ELSE Put(@, id, CHOOSE x \in st : TRUE)],
                 r |-> st, exc |-> FALSE])

\* The row of the messages table for a message.
MessageRow(m) ==
    [id |-> m.id, type |-> m.type, sender_id |-> m.sender_id,
     sender_type |-> m.sender_type, recipient_id |-> m.recipient_id,
     timestamp |-> m.timestamp, utcoffset |-> m.utcoffset,
     conversation_id |-> m.conversation_id]

\* add_message_to_conversation called with create_if_missing=False.
CV_add_message_no_create(s, m, now) ==
    IF m.conversation_id = NoConv THEN [s |-> s, r |-> FALSE, exc |-> FALSE]
    ELSE With(CV_get_conversation(s, m.conversation_id), LAMBDA g :
           IF g.exc THEN [s |-> s, r |-> FALSE, exc |-> TRUE]
           ELSE IF g.r = {} THEN [s |-> g.s, r |-> FALSE, exc |-> FALSE]
           ELSE With(add_participant(CHOOSE x \in g.r : TRUE, m.sender_id, now),
                     LAMBDA cv1 :
                  With([(IF m.recipient_id # ""
                         THEN add_participant(cv1, m.recipient_id, now)
                         ELSE cv1) EXCEPT !.updated_at = now],
                       LAMBDA cv3 :
                    [s |-> MS_store_conversation(
                               MS_store_message(
                                   [g.s EXCEPT !.active_conversations =
                                       Put(@, cv3.conversation_id, cv3)],
                                   MessageRow(m)).s,
                               cv3).s,
                     r |-> TRUE, exc |-> FALSE])))

\* An add_message_to_conversation that sets the status of the conversation
\* to 'active'.
CV_add_message_reopening(s, m, now) ==
    IF m.conversation_id = NoConv THEN [s |-> s, r |-> FALSE, exc |-> FALSE]
    ELSE With(CV_get_conversation(s, m.conversation_id), LAMBDA g :
           IF g.exc THEN [s |-> s, r |-> FALSE, exc |-> TRUE]
           ELSE With(IF g.r = {}
                     THEN CV_create_conversation(g.s, <<"with", m.sender_id>>,
                              <<m.sender_id>>, TRUE, now)
                     ELSE [s |-> g.s, r |-> CHOOSE x \in g.r : TRUE],
                     LAMBDA c :
                  With(add_participant(c.r, m.sender_id, now), LAMBDA cv1 :
                    With([(IF m.recipient_id # ""
                           THEN add_participant(cv1, m.recipient_id, now)
                           ELSE cv1) EXCEPT !.updated_at = now,
                                            !.status = "active"],
                         LAMBDA cv3 :
                      [s |-> MS_store_conversation(
                                 MS_store_message(
                                     [c.s EXCEPT !.active_conversations =
                                         Put(@, cv3.conversation_id, cv3)],
                                     MessageRow(m)).s,
                                 cv3).s,
                       r |-> TRUE, exc |-> FALSE]))))

CV_add_message_to_conversation(s, m, now) ==
    IF m.conversation_id = NoConv THEN [s |-> s, r |-> FALSE, exc |-> FALSE]
    ELSE With(CV_get_conversation(s, m.conversation_id), LAMBDA g :
           IF g.exc THEN [s |-> s, r |-> FALSE, exc |-> TRUE]
           ELSE With(IF g.r = {}
                     THEN CV_create_conversation(g.s, <<"with", m.sender_id>>,
                              <<m.sender_id>>, TRUE, now)
                     ELSE [s |-> g.s, r |-> CHOOSE x \in g.r : TRUE],
                     LAMBDA c :
                  With(add_participant(c.r, m.sender_id, now), LAMBDA cv1 :
                    With([(IF m.recipient_id # ""
                           THEN add_participant(cv1, m.recipient_id, now)
                           ELSE cv1) EXCEPT !.updated_at = now],
                         LAMBDA cv3 :
                      [s |-> MS_store_conversation(
                                 MS_store_message(
                                     [c.s EXCEPT !.active_conversations =
                                         Put(@, cv3.conversation_id, cv3)],
                                     MessageRow(m)).s,
                                 cv3).s,
                       r |-> TRUE, exc |-> FALSE]))))

\* A list_conversations that appends every stored conversation, cached or
\* not.
CV_list_conversations_all_stored(s, participant_id) ==
    With(MS_list_conversations(s, participant_id, ListLimit), LAMBDA stored :
      ByUpdate(SelectSeq(Listed(s.active_conversations) \o stored, LAMBDA c :
          participant_id = "" \/ InSeq(participant_id, c.participants))))

\* ConversationManager.list_conversations: the cached conversations and the
\* stored ones the store lists that are not cached, filtered by participant.
CV_list_conversations(s, participant_id) ==
    With(MS_list_conversations(s, participant_id, ListLimit), LAMBDA stored :
      ByUpdate(SelectSeq(
          Listed(s.active_conversations)
              \o SelectSeq(stored, LAMBDA c :
                     c.conversation_id \notin DOMAIN s.active_conversations),
          LAMBDA c : participant_id = "" \/ InSeq(participant_id, c.participants))))

\* ConversationManager.get_conversation_messages hands the call to the store.
CV_get_conversation_messages(s, conversation_id, limit) ==
    MS_get_conversation_messages(s, conversation_id, limit)

CV_archive_conversation(s, id, now) ==
    With(CV_get_conversation(s, id), LAMBDA g :
      IF g.exc THEN [s |-> s, r |-> FALSE, exc |-> TRUE]
      ELSE IF g.r = {} THEN [s |-> g.s, r |-> FALSE, exc |-> FALSE]
      ELSE [s |-> [MS_store_conversation(g.s,
                       [(CHOOSE x \in g.r : TRUE) EXCEPT
                           !.status = "archived", !.updated_at = now]).s
                   EXCEPT !.active_conversations = Del(@, id)],
            r |-> TRUE, exc |-> FALSE])

RECURSIVE SumParticipants(_, _)
SumParticipants(f, ids) ==
    IF ids = {} THEN 0
    ELSE With(CHOOSE x \in ids : TRUE, LAMBDA i :
           Len(f[i].participants) + SumParticipants(f, ids \ {i}))

\* Statistics that count every participant once, whatever the number of
\* conversations the participant is in.
CV_get_statistics_distinct(s) ==
    [active_conversations |-> Cardinality(DOMAIN s.active_conversations),
     total_participants |->
        Cardinality(UNION {{s.active_conversations[i].participants[k] :
                               k \in DOMAIN s.active_conversations[i].participants} :
                           i \in DOMAIN s.active_conversations}),
     stored_conversations |-> Get(MS_get_statistics(s), "total_conversations", 0),
     stored_messages |-> Get(MS_get_statistics(s), "total_messages", 0)]

CV_get_statistics(s) ==
    [active_conversations |-> Cardinality(DOMAIN s.active_conversations),
     total_participants |->
        SumParticipants(s.active_conversations, DOMAIN s.active_conversations),
     stored_conversations |-> Get(MS_get_statistics(s), "total_conversations", 0),
     stored_messages |-> Get(MS_get_statistics(s), "total_messages", 0)]

----------------------------------------------------------------------------
(* protocol.py: the envelopes and their dictionaries *)

\* Enum members and their values.
MessageType ==
    [CONTEXT_SHARE |-> "context_share",
     CONVERSATION_START |-> "conversation_start",
     CONVERSATION_MESSAGE |-> "conversation_message",
     CONVERSATION_END |-> "conversation_end",
     MEMORY_STORE |-> "memory_store",
     MEMORY_RETRIEVE |-> "memory_retrieve",
     AGENT_REGISTER |-> "agent_register",
     AGENT_STATUS |-> "agent_status",
     SYSTEM_BROADCAST |-> "system_broadcast"]

AgentType ==
    [AI_PROVIDER |-> "ai_provider", CHATBOT |-> "chatbot",
     MONITOR_AGENT |-> "monitor_agent", DASHBOARD |-> "dashboard",
     EXTERNAL_CLIENT |-> "external_client"]

\* Enum(value): the member with that value; ValueError when there is none.
IsValue(enum, v) == \E k \in DOMAIN enum : enum[k] = v
ByValue(enum, v) == CHOOSE k \in DOMAIN enum : enum[k] = v

\* A to_dict that writes the names of the enum members, not their values.
to_dict_names(m) ==
    [id |-> m.id, type |-> m.type, sender_id |-> m.sender_id,
     sender_type |-> m.sender_type,
     recipient_id |-> m.recipient_id, timestamp |-> m.timestamp,
     utcoffset |-> m.utcoffset,
     payload |-> m.payload, conversation_id |-> m.conversation_id]

\* MCPMessage.to_dict
to_dict(m) ==
    [id |-> m.id, type |-> MessageType[m.type], sender_id |-> m.sender_id,
     sender_type |-> AgentType[m.sender_type],
     recipient_id |-> m.recipient_id, timestamp |-> m.timestamp,
     utcoffset |-> m.utcoffset,
     payload |-> m.payload, conversation_id |-> m.conversation_id]

\* MCPRequest.to_dict and MCPResponse.to_dict: super().to_dict() updated
\* with the fields of the subclass.
MCPRequest_to_dict(m) ==
    [request_id |-> m.request_id, expects_response |-> m.expects_response,
     timeout_seconds |-> m.timeout_seconds] @@ to_dict(m)

MCPResponse_to_dict(m) ==
    [request_id |-> m.request_id, success |-> m.success,
     error_message |-> m.error_message,
     response_data |-> m.response_data] @@ to_dict(m)

\* m.to_dict() for an envelope of any of the three classes.
ToDict(m) ==
    CASE m.class = "MCPMessage" -> to_dict(m)
      [] m.class = "MCPRequest" -> MCPRequest_to_dict(m)
      [] m.class = "MCPResponse" -> MCPResponse_to_dict(m)

\* A from_dict that takes the default for an enum value it does not know.
from_dict_lenient(raw, now) ==
    IF ~raw.is_mapping THEN [ok |-> FALSE, error |-> "AttributeError"]
    ELSE With(raw.d, LAMBDA d :
         With(Get(d, "type", MessageType.CONTEXT_SHARE), LAMBDA ty :
         With(Get(d, "sender_type", AgentType.EXTERNAL_CLIENT), LAMBDA st :
         With(Get(d, "timestamp", now), LAMBDA ts :
           IF ts < 0
           THEN [ok |-> FALSE, error |-> "ValueError"]
           ELSE [ok |-> TRUE,
                 m |-> [id |-> d.id,
                        type |-> IF IsValue(MessageType, ty)
                                 THEN ByValue(MessageType, ty)
                                 ELSE "CONTEXT_SHARE",
                        sender_id |-> Get(d, "sender_id", ""),
                        sender_type |-> IF IsValue(AgentType, st)
                                        THEN ByValue(AgentType, st)
                                        ELSE "EXTERNAL_CLIENT",
                        recipient_id |-> Get(d, "recipient_id", ""),
                        timestamp |-> ts,
                        utcoffset |-> Get(d, "utcoffset", {}),
                        payload |-> Get(d, "payload",
                                        [is_mapping |-> TRUE, f |-> Empty]),
                        conversation_id |->
                            Get(d, "conversation_id", NoConv)]]))))

\* MCPMessage.from_dict: a dictionary d is a function of its keys; a key
\* that is absent takes the default of data.get.  ok is false when the
\* constructor raises (an unknown enum value, a timestamp that is no ISO
\* date, a raw message that is no mapping).
from_dict(raw, now) ==
    IF ~raw.is_mapping THEN [ok |-> FALSE, error |-> "AttributeError"]
    ELSE With(raw.d, LAMBDA d :
         With(Get(d, "type", MessageType.CONTEXT_SHARE), LAMBDA ty :
         With(Get(d, "sender_type", AgentType.EXTERNAL_CLIENT), LAMBDA st :
         With(Get(d, "timestamp", now), LAMBDA ts :
           IF ~IsValue(MessageType, ty) \/ ~IsValue(AgentType, st) \/ ts < 0
           THEN [ok |-> FALSE, error |-> "ValueError"]
           ELSE [ok |-> TRUE,
                 m |-> [id |-> d.id,
                        type |-> ByValue(MessageType, ty),
                        sender_id |-> Get(d, "sender_id", ""),
                        sender_type |-> ByValue(AgentType, st),
                        recipient_id |-> Get(d, "recipient_id", ""),
                        timestamp |-> ts,
                        utcoffset |-> Get(d, "utcoffset", {}),
                        payload |-> Get(d, "payload",
                                        [is_mapping |-> TRUE, f |-> Empty]),
                        conversation_id |->
                            Get(d, "conversation_id", NoConv)]]))))

----------------------------------------------------------------------------
(* mcp_server.py *)

NoResponseData ==
    [context_id |-> {}, conversation_id |-> {}, context |-> {},
     contexts |-> <<>>, message |-> ""]

\* The request_id "" an MCPResponse has by default.
NoRequestId == <<"msg", 0>>

\* An MCPResponse: recipient_id "" and error_message "" are None.
MCPResponse(recipient_id, request_id, success, error_message, response_data) ==
    [sender_id |-> ServerId, sender_type |-> "MONITOR_AGENT",
     recipient_id |-> recipient_id, request_id |-> request_id,
     success |-> success, error_message |-> error_message,
     response_data |-> response_data]

\* getattr(message, 'request_id', message.id): the message is an MCPMessage,
\* which has no request_id.
RequestIdOf(m) == m.id

\* The `except Exception as e` of a handler.
HandlerFailed(s, m, e) ==
    [s |-> s, r |-> MCPResponse("", RequestIdOf(m), FALSE, e, NoResponseData),
     returned |-> {}]

Answer(s, m, success, message, data) ==
    [s |-> s,
     r |-> MCPResponse(m.sender_id, RequestIdOf(m), success, "",
                       [data EXCEPT !.message = message]),
     returned |-> {}]

\* A view of a context that leaves its data out.
ContextView_nodata(c) ==
    [context_id |-> c.context_id, context_type |-> c.context_type,
     data |-> NoData, metadata |-> c.metadata, created_at |-> c.created_at]

\* What memory_retrieve and get_contexts show of a context.
ContextView(c) ==
    [context_id |-> c.context_id, context_type |-> c.context_type,
     data |-> c.data, metadata |-> c.metadata, created_at |-> c.created_at]

NoMetadata == [shared_with |-> <<>>]
NoExpiry == [number |-> TRUE, n |-> {}]

handle_context_share(s, m, now) ==
    IF ~m.payload.is_mapping THEN HandlerFailed(s, m, "AttributeError")
    ELSE With(m.payload.f, LAMBDA p :
         With(Get(p, "expires_in_minutes", NoExpiry), LAMBDA e :
           IF ~e.number THEN HandlerFailed(s, m, "TypeError")
           ELSE With(CM_store_context(s,
                         Get(p, "context_type", "general"),
                         Get(p, "data", NoData),
                         Get(p, "metadata", NoMetadata).shared_with,
                         e.n, now),
                     LAMBDA q :
                  Answer(IF m.recipient_id # ""
                         THEN CM_share_context_with_agent(q.s,
                                  q.r.context_id, m.recipient_id, now).s
                         ELSE q.s,
                         m, TRUE, "Context shared successfully",
                         [NoResponseData EXCEPT
                             !.context_id = {q.r.context_id}]))))

handle_conversation_start(s, m, now) ==
    IF ~m.payload.is_mapping THEN HandlerFailed(s, m, "AttributeError")
    ELSE With(Get(m.payload.f, "participants",
                  [is_list |-> TRUE, v |-> <<m.sender_id>>]),
              LAMBDA participants :
           IF ~participants.is_list
           THEN HandlerFailed(s, m, "AttributeError")
           ELSE With(CV_create_conversation(s,
                         Get(m.payload.f, "title",
                             <<"started_by", m.sender_id>>),
                         participants.v, FALSE, now),
                     LAMBDA c :
                  Answer(CM_create_conversation_context(c.s,
                             c.r.conversation_id, participants.v,
                             m.sender_id, now).s,
                         m, TRUE, "Conversation started successfully",
                         [NoResponseData EXCEPT
                             !.conversation_id = {c.r.conversation_id}])))

handle_conversation_message(s, m, now) ==
    IF m.conversation_id = NoConv
    THEN Answer(s, m, TRUE, "Message processed successfully", NoResponseData)
    ELSE With(CM_update_conversation_context(s, m.conversation_id,
                  [last_message_at |-> {m.timestamp},
                   last_message_from |-> m.sender_id], now),
              LAMBDA u :
           IF u.exc THEN HandlerFailed(u.s, m, "AttributeError")
           ELSE Answer(u.s, m, TRUE, "Message processed successfully",
                       NoResponseData))

\* The part of conversation_end after the conversation is archived.
EndArchived(s, m, id, now) ==
    With(CM_update_conversation_context(s, id,
             [ended_at |-> {m.timestamp}, ended_by |-> m.sender_id], now),
         LAMBDA u :
           IF u.exc THEN HandlerFailed(u.s, m, "AttributeError")
           ELSE Answer(u.s, m, TRUE, "Conversation ended successfully",
                       NoResponseData))

handle_conversation_end(s, m, now) ==
    IF ~m.payload.is_mapping THEN HandlerFailed(s, m, "AttributeError")
    ELSE With(Get(m.payload.f, "conversation_id", m.conversation_id),
              LAMBDA id :
           IF id = NoConv
           THEN [s |-> s,
                 r |-> MCPResponse("", RequestIdOf(m), FALSE,
                           "No conversation_id provided", NoResponseData),
                 returned |-> {}]
           ELSE With(CV_archive_conversation(s, id, now), LAMBDA a :
                  IF a.exc THEN HandlerFailed(a.s, m, "TypeError")
                  ELSE IF ~a.r
                       THEN Answer(a.s, m, FALSE, "Conversation not found",
                                   NoResponseData)
                       ELSE EndArchived(a.s, m, id, now)))

handle_memory_store(s, m, now) ==
    IF ~m.payload.is_mapping THEN HandlerFailed(s, m, "AttributeError")
    ELSE With(CM_store_context(s, Get(m.payload.f, "memory_type", "general"),
                  Get(m.payload.f, "data", NoData),
                  Get(m.payload.f, "metadata", NoMetadata).shared_with,
                  {}, now),
              LAMBDA q :
           Answer(q.s, m, TRUE, "Memory stored successfully",
               [NoResponseData EXCEPT !.context_id = {q.r.context_id}]))

\* memory_retrieve with a context_id.
RetrieveOne(s, m, context_id, now) ==
    IF context_id = Unhashable THEN HandlerFailed(s, m, "TypeError")
    ELSE With(CM_retrieve_context(s, context_id, now), LAMBDA q :
           IF q.r # {}
           THEN [Answer(q.s, m, TRUE, "",
                    [NoResponseData EXCEPT !.context =
                        {ContextView(c) : c \in q.r}])
                 EXCEPT !.returned = q.r]
           ELSE [s |-> q.s,
                 r |-> MCPResponse("", RequestIdOf(m), FALSE,
                           "Context not found", NoResponseData),
                 returned |-> {}])

\* memory_retrieve with a memory_type.
RetrieveTyped(s, m, memory_type, now) ==
    With(CM_retrieve_contexts_by_type(s, memory_type, now), LAMBDA q :
      [Answer(q.s, m, TRUE, "",
          [NoResponseData EXCEPT !.contexts =
              [i \in DOMAIN q.r |-> ContextView(q.r[i])]])
       EXCEPT !.returned = {q.r[i] : i \in DOMAIN q.r}])

\* A memory_retrieve handler that looks at memory_type first.
handle_memory_retrieve_type_first(s, m, now) ==
    IF ~m.payload.is_mapping THEN HandlerFailed(s, m, "AttributeError")
    ELSE IF Get(m.payload.f, "memory_type", "") # ""
         THEN RetrieveTyped(s, m, m.payload.f.memory_type, now)
         ELSE IF Get(m.payload.f, "context_id", NoCtx) # NoCtx
              THEN RetrieveOne(s, m, m.payload.f.context_id, now)
              ELSE [s |-> s,
                    r |-> MCPResponse("", RequestIdOf(m), FALSE,
                              "Must provide either context_id or memory_type",
                              NoResponseData),
                    returned |-> {}]

\* `if context_id:` and `elif memory_type:` test the values payload.get
\* returned: a key that is absent, null or an empty string is not given.
handle_memory_retrieve(s, m, now) ==
    IF ~m.payload.is_mapping THEN HandlerFailed(s, m, "AttributeError")
    ELSE IF Get(m.payload.f, "context_id", NoCtx) # NoCtx
         THEN RetrieveOne(s, m, m.payload.f.context_id, now)
         ELSE IF Get(m.payload.f, "memory_type", "") # ""
              THEN RetrieveTyped(s, m, m.payload.f.memory_type, now)
              ELSE [s |-> s,
                    r |-> MCPResponse("", RequestIdOf(m), FALSE,
                              "Must provide either context_id or memory_type",
                              NoResponseData),
                    returned |-> {}]

handle_agent_register(s, m, now) ==
    IF ~m.payload.is_mapping THEN HandlerFailed(s, m, "AttributeError")
    ELSE With(Get(m.payload.f, "agent_type", AgentType.EXTERNAL_CLIENT),
              LAMBDA at :
           IF ~IsValue(AgentType, at) THEN HandlerFailed(s, m, "ValueError")
           ELSE With(CM_register_agent(s, m.sender_id,
                         ByValue(AgentType, at), now),
                     LAMBDA q :
                  Answer(q.s, m, q.r,
                      IF q.r THEN "Agent registered successfully"
                      ELSE "Registration failed", NoResponseData)))

handle_agent_status(s, m, now) ==
    IF ~m.payload.is_mapping THEN HandlerFailed(s, m, "AttributeError")
    ELSE With(CM_update_agent_status(s, m.sender_id,
                  Get(m.payload.f, "status", "active"), now),
              LAMBDA q :
           Answer(q.s, m, q.r,
               IF q.r THEN "Status updated successfully" ELSE "Update failed",
               NoResponseData))

handle_system_broadcast(s, m, now) ==
    Answer(s, m, TRUE, "Broadcast received", NoResponseData)

\* self.message_handlers
Dispatch(s, m, now) ==
    CASE m.type = "CONTEXT_SHARE" -> handle_context_share(s, m, now)
      [] m.type = "CONVERSATION_START" -> handle_conversation_start(s, m, now)
      [] m.type = "CONVERSATION_MESSAGE" -> handle_conversation_message(s, m, now)
      [] m.type = "CONVERSATION_END" -> handle_conversation_end(s, m, now)
      [] m.type = "MEMORY_STORE" -> handle_memory_store(s, m, now)
      [] m.type = "MEMORY_RETRIEVE" -> handle_memory_retrieve(s, m, now)
      [] m.type = "AGENT_REGISTER" -> handle_agent_register(s, m, now)
      [] m.type = "AGENT_STATUS" -> handle_agent_status(s, m, now)
      [] m.type = "SYSTEM_BROADCAST" -> handle_system_broadcast(s, m, now)

\* The response of the outer `except Exception as e` of process_message.
ErrorResponse(e) == MCPResponse("", NoRequestId, FALSE, e, NoResponseData)

\* A process_message that records a message only when its handler succeeded.
TryProcess_handled_only(s, raw, now) ==
    With(from_dict(raw, now), LAMBDA d :
      IF ~d.ok
      THEN [s |-> s, error |-> d.error, r |-> {}, returned |-> {}]
      ELSE With(Dispatch(s, d.m, now), LAMBDA h :
             IF ~h.r.success
             THEN [s |-> h.s, error |-> "", r |-> {h.r}, returned |-> h.returned]
             ELSE With(CV_add_message_to_conversation(h.s, d.m, now), LAMBDA a :
                    IF a.exc
                    THEN [s |-> h.s, error |-> "TypeError", r |-> {},
                          returned |-> {}]
                    ELSE [s |-> a.s, error |-> "", r |-> {h.r},
                          returned |-> h.returned])))

\* The try block of process_message: the state it leaves, the exception
\* that leaves it (error, "" when none), the handler's response and the
\* contexts the handler handed out.
TryProcess(s, raw, now) ==
    With(from_dict(raw, now), LAMBDA d :
      IF ~d.ok
      THEN [s |-> s, error |-> d.error, r |-> {}, returned |-> {}]
      ELSE With(Dispatch(s, d.m, now), LAMBDA h :
             With(CV_add_message_to_conversation(h.s, d.m, now), LAMBDA a :
               IF a.exc
               THEN [s |-> h.s, error |-> "TypeError", r |-> {},
                     returned |-> {}]
               ELSE [s |-> a.s, error |-> "", r |-> {h.r},
                     returned |-> h.returned])))

\* process_message without its `except Exception`: the exception leaves it.
process_message_uncaught(s, raw, now) ==
    With(TryProcess(s, raw, now), LAMBDA t :
      [s |-> t.s, raised |-> t.error # "", r |-> t.r,
       returned |-> t.returned, handled |-> t.error = ""])

\* MCPServer.process_message: what it returns (r), whether an exception
\* leaves it (raised), the state it leaves, the contexts it handed out, and
\* whether the answer is the handler's (handled).
process_message(s, raw, now) ==
    With(TryProcess(s, raw, now), LAMBDA t :
      [s |-> t.s, raised |-> FALSE,
       r |-> IF t.error # "" THEN {ErrorResponse(t.error)} ELSE t.r,
       returned |-> t.returned, handled |-> t.error = ""])

RECURSIVE RetrievedOfTypes(_, _, _)
\* ContextManager.retrieve_contexts_by_type for each type of the list in
\* turn, the lists it returns one after the other.
RetrievedOfTypes(s, types, now) ==
    IF types = <<>> THEN [s |-> s, r |-> <<>>]
    ELSE With(CM_retrieve_contexts_by_type(s, Head(types), now), LAMBDA q :
           With(RetrievedOfTypes(q.s, Tail(types), now), LAMBDA rest :
             [s |-> rest.s, r |-> q.r \o rest.r]))

\* What get_contexts shows of a context.
ContextListing(c) == ContextView(c) @@ [expires_at |-> c.expires_at]

\* MCPServer.get_contexts; context_type "" stands for None.
get_contexts(s, context_type, now) ==
    With(IF context_type # ""
         THEN CM_retrieve_contexts_by_type(s, context_type, now)
         ELSE RetrievedOfTypes(s, KnownTypes, now),
         LAMBDA q :
      [s |-> q.s, r |-> [i \in DOMAIN q.r |-> ContextListing(q.r[i])],
       returned |-> {q.r[i] : i \in DOMAIN q.r}])

\* Whether the coroutine process_message is suspended at one of its awaits.
\* Its only await is `await handler(message)`; the handlers are coroutines
\* that await nothing (the managers and the store are called synchronously),
\* so awaiting them never hands control to the event loop.
Suspends(point) == FALSE

\* process_message from its first line to the return of the handler, and
\* from there to its own return; pc is where the coroutine stands after.
until_handler_returns(s, raw, now) ==
    With(from_dict(raw, now), LAMBDA d :
      IF ~d.ok THEN [s |-> s, pc |-> "done"]
      ELSE [s |-> Dispatch(s, d.m, now).s, pc |-> "handled"])

after_handler(s, raw, now) ==
    With(CV_add_message_to_conversation(s, from_dict(raw, now).m, now),
         LAMBDA a : [s |-> IF a.exc THEN s ELSE a.s, pc |-> "done"])

\* A coroutine that read the caches and the tables when it was created, was
\* suspended, and writes what it computed from them when it is resumed.
resume_from_snapshot(s, raw, pc, now) ==
    [s |-> [process_message(CHOOSE b \in s.gathered.base : TRUE, raw, now).s
               EXCEPT !.gathered = s.gathered],
     pc |-> "done"]

\* The event loop runs the coroutine from pc until it is suspended or
\* returns.
resume(s, raw, pc, now) ==
    IF pc = "handled" THEN after_handler(s, raw, now)
    ELSE With(until_handler_returns(s, raw, now), LAMBDA h :
           IF h.pc = "done" \/ Suspends("handler") THEN h
           ELSE after_handler(h.s, raw, now))

\* start without the cleanup.
start_register_only(s, now) ==
    CM_register_agent(s, ServerId, "MONITOR_AGENT", now).s

\* MCPServer.start: _startup_tasks registers the server as agent
\* "mcp_server" and runs cleanup_expired_contexts.
start(s, now) ==
    CM_cleanup_expired_contexts(
        CM_register_agent(s, ServerId, "MONITOR_AGENT", now).s, now).s

\* MCPServer.stop: _cleanup_tasks calls update_agent_status and drops what it
\* returns.
stop(s, now) == CM_update_agent_status(s, ServerId, "stopped", now).s

----------------------------------------------------------------------------
(* The calls a client can make *)

MsgId(n) == <<"msg", n>>
Mapping(f) == [is_mapping |-> TRUE, f |-> f]
NotAMapping == [is_mapping |-> FALSE, f |-> Empty]

D1 == [NoData EXCEPT !.val = "v"]
ScalarData == [NoData EXCEPT !.shape = "scalar", !.val = "v"]
ConvData(id) == [NoData EXCEPT !.conversation_id = id]
Minutes(n) == [number |-> TRUE, n |-> {n}]
NotANumber == [number |-> FALSE, n |-> {}]

\* A raw message as a client builds it with to_dict (no timestamp key: the
\* message is stamped on arrival).  Where a dictionary has a timestamp, the
\* key timestamp is the wall-clock reading of its ISO text and the key
\* utcoffset the UTC offset the text ends with, absent when it has none.
Raw(id, type, sender, recipient, conv, payload) ==
    [is_mapping |-> TRUE,
     d |-> [id |-> id, type |-> type, sender_id |-> sender,
            sender_type |-> AgentType.EXTERNAL_CLIENT,
            recipient_id |-> recipient, payload |-> payload,
            conversation_id |-> conv]]

\* A raw request as a client builds it with MCPRequest.to_dict: the envelope
\* with a request_id of its own, expects_response and timeout_seconds.
ReqId(n) == <<"req", n>>

RawRequest(id, type, sender, recipient, conv, payload) ==
    [is_mapping |-> TRUE,
     d |-> [request_id |-> ReqId(1), expects_response |-> TRUE,
            timeout_seconds |-> 30]
           @@ Raw(id, type, sender, recipient, conv, payload).d]

\* The conversation ids a client can name: the ones the server gave out,
\* one of its own, and a value that is not a string.
ConvIdsKnown == {ConvUuid(n) : n \in 1..uuid_conv}
ConvIdsNamed == ConvIdsKnown \cup {ClientConv, Unhashable}
CtxIdsKnown == {CtxId(n) : n \in 1..uuid_ctx}

ContextSharePayloads ==
    {Mapping(Empty),
     Mapping([data |-> D1, expires_in_minutes |-> Minutes(1)]),
     Mapping([data |-> D1, expires_in_minutes |-> Minutes(-1)]),
     Mapping([context_type |-> "conversation", data |-> ConvData(ClientConv)]),
     Mapping([context_type |-> "conversation", data |-> ScalarData]),
     Mapping([data |-> D1, metadata |-> [shared_with |-> <<"B">>]]),
     Mapping([expires_in_minutes |-> NotANumber]),
     NotAMapping}

MemoryStorePayloads ==
    {Mapping(Empty),
     Mapping([memory_type |-> "custom", data |-> D1,
              expires_in_minutes |-> Minutes(1)]),
     Mapping([memory_type |-> "conversation", data |-> ConvData(ClientConv)]),
     NotAMapping}

MemoryRetrievePayloads ==
    {Mapping([context_id |-> c]) : c \in CtxIdsKnown \cup {UnknownCtx, Unhashable}}
    \cup {Mapping([memory_type |-> ty]) : ty \in {"general", "conversation"}}
    \cup {Mapping([context_id |-> c, memory_type |-> "general"]) : c \in {UnknownCtx}}
    \cup {Mapping(Empty), NotAMapping}

ConversationStartPayloads ==
    {Mapping(Empty),
     Mapping([title |-> <<"given", "T">>,
              participants |-> [is_list |-> TRUE, v |-> <<"A", "B">>]]),
     Mapping([participants |-> [is_list |-> FALSE, v |-> <<>>]]),
     NotAMapping}

ConversationEndPayloads ==
    {Mapping(Empty), NotAMapping}
    \cup {Mapping([conversation_id |-> c]) : c \in ConvIdsNamed}

AgentRegisterPayloads ==
    {Mapping(Empty), Mapping([agent_type |-> "chatbot"]),
     Mapping([agent_type |-> "robot"]), NotAMapping}

AgentStatusPayloads == {Mapping([status |-> "busy"]), Mapping(Empty), NotAMapping}

\* The envelopes that do not decode.
MalformedMessages(id) ==
    {[is_mapping |-> FALSE, d |-> Empty],
     Raw(id, "context_sharing", "A", "", NoConv, Mapping(Empty)),
     [is_mapping |-> TRUE,
      d |-> [id |-> id, sender_id |-> "A", sender_type |-> "human",
             conversation_id |-> ClientConv]],
     [is_mapping |-> TRUE,
      d |-> [id |-> id, sender_id |-> "A", timestamp |-> -1]]}

RawMessages(id) ==
    MalformedMessages(id)
    \cup {Raw(id, "context_share", "A", rc, NoConv, p) :
            rc \in {"", "B"}, p \in ContextSharePayloads}
    \cup {Raw(id, "context_share", "A", "B", ClientConv, Mapping(Empty))}
    \cup {Raw(id, "memory_store", "A", rc, NoConv, p) :
            rc \in {"", "B"}, p \in MemoryStorePayloads}
    \cup {Raw(id, "memory_retrieve", "B", "", NoConv, p) :
            p \in MemoryRetrievePayloads}
    \cup {Raw(id, "conversation_start", "A", "", NoConv, p) :
            p \in ConversationStartPayloads}
    \cup {Raw(id, "conversation_message", sd, "", c, Mapping(Empty)) :
            sd \in AgentIds, c \in ConvIdsNamed \cup {NoConv}}
    \cup {Raw(id, "conversation_end", "A", "", c, p) :
            c \in {NoConv, ClientConv}, p \in ConversationEndPayloads}
    \cup {Raw(id, "agent_register", sd, "", NoConv, p) :
            sd \in AgentIds, p \in AgentRegisterPayloads}
    \cup {Raw(id, "agent_status", sd, "", NoConv, p) :
            sd \in AgentIds, p \in AgentStatusPayloads}
    \cup {Raw(id, "system_broadcast", "A", "", c, Mapping(Empty)) :
            c \in {NoConv, Unhashable}}
    \cup {RawRequest(id, ty, "A", "", NoConv, Mapping(Empty)) :
            ty \in {"system_broadcast", "memory_retrieve", "broadcast"}}

\* The envelopes of the three classes, as their constructors build them.
BaseEnvelopes(class) ==
    {[class |-> class, id |-> MsgId(i), type |-> ty, sender_id |-> sd,
      sender_type |-> st, recipient_id |-> rc, timestamp |-> 0,
      utcoffset |-> {},
      payload |-> p, conversation_id |-> NoConv] :
        i \in 1..2, ty \in DOMAIN MessageType, sd \in {"", "A"},
        st \in DOMAIN AgentType, rc \in {"", "B"},
        p \in {Mapping(Empty), Mapping([data |-> D1])}}

Envelopes ==
    BaseEnvelopes("MCPMessage")
    \cup {[request_id |-> MsgId(3), expects_response |-> TRUE,
           timeout_seconds |-> 30] @@ e : e \in BaseEnvelopes("MCPRequest")}
    \cup {[request_id |-> MsgId(3), success |-> ok, error_message |-> "",
           response_data |-> NoResponseData] @@ e :
             e \in BaseEnvelopes("MCPResponse"), ok \in BOOLEAN}

\* The ids a client gives its messages: a fresh one, or one already used.
MessageIds ==
    {MsgId(Cardinality(DOMAIN tbl_messages) + 1)} \cup DOMAIN tbl_messages

----------------------------------------------------------------------------
(* State machine *)

NoHist ==
    [calls |-> 0,              \* calls made so far
     shared_calls |-> {},      \* <<context, agent>> share_context_with_agent could resolve
     deleted |-> {},           \* context ids given to delete_context
     gone |-> {},              \* context ids retrieve_context did not find
     stored |-> Empty,         \* context id -> what store_context was given
     issued |-> Empty,         \* context id -> what context_share / memory_store answered for
     registered |-> {},        \* agent ids given to register_agent
     created |-> 0,            \* conversations made by create_conversation
     participants |-> 0,       \* participants they were made with, summed
     sizes |-> {},             \* and the lengths of their participant lists
     untouched |-> TRUE,       \* no message was added to a conversation, none archived
     started |-> FALSE,        \* start() was called
     loaded |-> {},            \* agents whose cached copy get_agent loaded from the store
     refused |-> {},           \* agents update_agent_status refused while they were stored
     tables_when_failed |-> Empty,  \* the tables when the storage last failed
     messaged |-> {}]          \* conversation ids of the conversation_message processed

Init ==
    /\ clock = 0
    /\ active_contexts = Empty
    /\ registered_agents = Empty
    /\ active_conversations = Empty
    /\ tbl_contexts = Empty
    /\ tbl_agents = Empty
    /\ tbl_conversations = Empty
    /\ tbl_messages = Empty
    /\ uuid_ctx = 0
    /\ uuid_conv = 0
    /\ db_down = FALSE
    /\ gathered = NoCoroutines
    /\ last = [op |-> "init", returned |-> {}]
    /\ hist = NoHist

\* The state a call leaves.
Becomes(s) ==
    /\ active_contexts' = s.active_contexts
    /\ registered_agents' = s.registered_agents
    /\ active_conversations' = s.active_conversations
    /\ tbl_contexts' = s.tbl_contexts
    /\ tbl_agents' = s.tbl_agents
    /\ tbl_conversations' = s.tbl_conversations
    /\ tbl_messages' = s.tbl_messages
    /\ uuid_ctx' = s.uuid_ctx
    /\ uuid_conv' = s.uuid_conv
    /\ db_down' = s.db_down
    /\ gathered' = s.gathered

Called(h) == [h EXCEPT !.calls = @ + 1]

\* The contexts in the cache or the store that have not expired.
LiveContexts(s, now) ==
    {c \in {s.active_contexts[i] : i \in DOMAIN s.active_contexts}
            \cup {s.tbl_contexts[i] : i \in DOMAIN s.tbl_contexts} :
        ~is_expired(c, now)}

AllConversations(s) == (DOMAIN s.active_conversations) \cup (DOMAIN s.tbl_conversations)

\* The copies of context id in the cache and in the store.
Copies(s, id) ==
    {s.active_contexts[i] : i \in (DOMAIN s.active_contexts) \cap {id}}
    \cup {s.tbl_contexts[i] : i \in (DOMAIN s.tbl_contexts) \cap {id}}

\* Time passes between two calls.
Tick ==
    /\ clock < MaxClock
    /\ clock' = clock + 1
    /\ last' = [op |-> "tick", returned |-> {}]
    /\ UNCHANGED <<active_contexts, registered_agents, active_conversations,
                   tbl_contexts, tbl_agents, tbl_conversations, tbl_messages,
                   uuid_ctx, uuid_conv, db_down, gathered, hist>>

\* Whether agent id is registered, in the cache or in the store.
Resolvable(s, id) == id \in (DOMAIN s.registered_agents) \cup (DOMAIN s.tbl_agents)

\* The history after process_message(raw) has answered with q.
HistAfterMessage(raw, q) ==
    With(from_dict(raw, clock), LAMBDA d :
      IF ~d.ok \/ q.raised THEN Called(hist)
      ELSE LET m == d.m
               r == CHOOSE x \in q.r : TRUE
               ok == q.handled /\ r.success
               p == m.payload.f
               made == q.s.uuid_conv - uuid_conv
               size == IF m.type = "CONVERSATION_START" /\ ok
                       THEN Len(Get(p, "participants",
                                    [is_list |-> TRUE, v |-> <<m.sender_id>>]).v)
                       ELSE 1
           IN [Called(hist) EXCEPT
                 !.shared_calls =
                     IF /\ m.type = "CONTEXT_SHARE" /\ ok
                        /\ Resolvable(Cur, m.recipient_id)
                     THEN @ \cup {<<c, m.recipient_id>> :
                                    c \in r.response_data.context_id}
                     ELSE @,
                 !.issued =
                     IF m.type \in {"CONTEXT_SHARE", "MEMORY_STORE"} /\ ok
                     THEN Put(@, CHOOSE c \in r.response_data.context_id : TRUE,
                              [context_type |->
                                   IF m.type = "CONTEXT_SHARE"
                                   THEN Get(p, "context_type", "general")
                                   ELSE Get(p, "memory_type", "general"),
                               data |-> Get(p, "data", NoData),
                               expires_at |->
                                   IF m.type = "CONTEXT_SHARE"
                                   THEN {clock + n : n \in
                                           Get(p, "expires_in_minutes",
                                               NoExpiry).n \ {0}}
                                   ELSE {},
                               recipient |->
                                   IF m.type = "CONTEXT_SHARE"
                                   THEN m.recipient_id ELSE "",
                               resolved |->
                                   /\ m.type = "CONTEXT_SHARE"
                                   /\ Resolvable(Cur, m.recipient_id)])
                     ELSE @,
                 !.registered =
                     IF m.type = "AGENT_REGISTER" /\ ok
                     THEN @ \cup {m.sender_id} ELSE @,
                 !.created = @ + made,
                 !.participants = @ + made * size,
                 !.sizes = IF made > 0 THEN @ \cup {size} ELSE @,
                 !.untouched = /\ @
                               /\ m.conversation_id = NoConv
                               /\ ~(m.type = "CONVERSATION_END" /\ ok),
                 !.messaged =
                     IF m.type = "CONVERSATION_MESSAGE" /\ q.handled
                     THEN @ \cup ({m.conversation_id} \ {NoConv}) ELSE @])

\* A client submits a raw message.
ProcessMessage(raw) ==
    /\ hist.calls < MaxCalls
    /\ \E q \in {process_message(Cur, raw, clock)} :
          /\ Becomes(q.s)
          /\ last' = [op |-> "process_message", raw |-> raw, raised |-> q.raised,
                      r |-> q.r, returned |-> q.returned, handled |-> q.handled,
                      conversations_before |-> AllConversations(Cur),
                      messaged_before |-> hist.messaged,
                      ids_before |-> DOMAIN tbl_messages,
                      live_before |-> LiveContexts(Cur, clock),
                      changed |-> q.s # Cur]
          /\ hist' = HistAfterMessage(raw, q)
          /\ UNCHANGED clock

\* The context_share message that carries what the memory_store message raw
\* carries, its memory_type as context_type.
AsContextShare(raw) ==
    [raw EXCEPT
       !.d.type = "context_share",
       !.d.payload.f =
           [k \in ((DOMAIN @) \ {"memory_type"})
                   \cup {"context_type" : x \in (DOMAIN @) \cap {"memory_type"}} |->
               IF k = "context_type" /\ "memory_type" \in DOMAIN @
               THEN @["memory_type"] ELSE @[k]]]

\* The rows of the contexts table that the call answered by q wrote anew.
StoredBy(q) ==
    {q.s.tbl_contexts[c] : c \in (DOMAIN q.s.tbl_contexts) \ DOMAIN tbl_contexts}

\* A client submits a memory_store message.  The call is recorded with what
\* the same server would have answered and stored for the context_share
\* message of the same content.
ProcessMemoryStore(raw) ==
    /\ hist.calls < MaxCalls
    /\ \E q \in {process_message(Cur, raw, clock)} :
       \E t \in {process_message(Cur, AsContextShare(raw), clock)} :
          /\ Becomes(q.s)
          /\ last' = [op |-> "process_message", raw |-> raw, raised |-> q.raised,
                      r |-> q.r, returned |-> q.returned, handled |-> q.handled,
                      conversations_before |-> AllConversations(Cur),
                      messaged_before |-> hist.messaged,
                      ids_before |-> DOMAIN tbl_messages,
                      changed |-> q.s # Cur,
                      stored |-> StoredBy(q),
                      as_context_share |-> [r |-> t.r, stored |-> StoredBy(t)]]
          /\ hist' = HistAfterMessage(raw, q)
          /\ UNCHANGED clock

\* MCPServer.get_statistics
GetStatistics ==
    /\ last' = [op |-> "get_statistics", returned |-> {},
                r |-> [contexts |-> CM_get_statistics(Cur),
                       conversations |-> CV_get_statistics(Cur)]]
    /\ UNCHANGED <<clock, active_contexts, registered_agents,
                   active_conversations, tbl_contexts, tbl_agents,
                   tbl_conversations, tbl_messages, uuid_ctx, uuid_conv,
                   db_down, gathered, hist>>

\* ContextManager.store_context
StoreContext(ctype, data, shared_with, expires_in_minutes) ==
    /\ hist.calls < MaxCalls
    /\ \E q \in {CM_store_context(Cur, ctype, data, shared_with,
                                 expires_in_minutes, clock)} :
          /\ Becomes(q.s)
          /\ last' = [op |-> "store_context", returned |-> {}, r |-> q.r]
          /\ hist' = [Called(hist) EXCEPT !.stored =
                         Put(@, q.r.context_id,
                             [expires_in_minutes |-> expires_in_minutes,
                              created_at |-> clock])]
          /\ UNCHANGED clock

\* ContextManager.create_conversation_context
\* ContextManager.store_context with a metadata dict used before
StoreContextSameMetadata(ctype, data, other, expires_in_minutes) ==
    /\ hist.calls < MaxCalls
    /\ other \in DOMAIN active_contexts
    /\ \E q \in {CM_store_context_same_metadata(Cur, ctype, data, other,
                                               expires_in_minutes, clock)} :
          /\ Becomes(q.s)
          /\ last' = [op |-> "store_context", returned |-> {}, r |-> q.r]
          /\ hist' = [Called(hist) EXCEPT !.stored =
                         Put(@, q.r.context_id,
                             [expires_in_minutes |-> expires_in_minutes,
                              created_at |-> clock])]
          /\ UNCHANGED clock

CreateConversationContext(conversation_id, participants) ==
    /\ hist.calls < MaxCalls
    /\ \E q \in {CM_create_conversation_context(Cur, conversation_id, participants,
                                               Head(participants), clock)} :
          /\ Becomes(q.s)
          /\ last' = [op |-> "create_conversation_context", returned |-> {},
                      r |-> q.r]
          /\ hist' = [Called(hist) EXCEPT !.stored =
                         Put(@, q.r.context_id,
                             [expires_in_minutes |-> {}, created_at |-> clock])]
          /\ UNCHANGED clock

\* ContextManager.register_agent
RegisterAgent(id, atype) ==
    /\ hist.calls < MaxCalls
    /\ \E q \in {CM_register_agent(Cur, id, atype, clock)} :
          /\ Becomes(q.s)
          /\ last' = [op |-> "register_agent", returned |-> {}, r |-> q.r]
          /\ hist' = [Called(hist) EXCEPT !.registered = @ \cup {id},
                                          !.loaded = @ \ {id}]
          /\ UNCHANGED clock

\* ContextManager.share_context_with_agent.  The call is recorded with what
\* held before it: whether the context could be retrieved and the agent be
\* found, whether the agent was in shared_with, whether the pair was given
\* before.
ShareContextWithAgent(context_id, agent_id) ==
    /\ hist.calls < MaxCalls
    /\ \E q \in {CM_share_context_with_agent(Cur, context_id, agent_id, clock)} :
       \E live \in {{c \in Copies(Cur, context_id) : ~is_expired(c, clock)}} :
          /\ Becomes(q.s)
          /\ last' = [op |-> "share_context_with_agent", returned |-> {},
                      context_id |-> context_id, agent_id |-> agent_id,
                      r |-> q.r,
                      resolvable |-> live # {} /\ Resolvable(Cur, agent_id),
                      already |-> \E c \in live :
                                     InSeq(agent_id, c.metadata.shared_with),
                      first |-> <<context_id, agent_id>> \notin hist.shared_calls,
                      before |-> [active_contexts |-> active_contexts,
                                  tbl_contexts |-> tbl_contexts]]
          /\ hist' = [Called(hist) EXCEPT
                         !.shared_calls =
                             IF live # {} /\ Resolvable(Cur, agent_id)
                             THEN @ \cup {<<context_id, agent_id>>} ELSE @]
          /\ UNCHANGED clock

\* ContextManager.retrieve_context
RetrieveContext(id) ==
    /\ hist.calls < MaxCalls
    /\ \E q \in {CM_retrieve_context(Cur, id, clock)} :
          /\ Becomes(q.s)
          /\ last' = [op |-> "retrieve_context", returned |-> q.r, id |-> id,
                      r |-> q.r, gone_before |-> hist.gone,
                      expired_before |->
                          {i \in DOMAIN active_contexts :
                              is_expired(active_contexts[i], clock)}]
          /\ hist' = [Called(hist) EXCEPT
                         !.gone = IF q.r = {} THEN @ \cup {id} ELSE @]
          /\ UNCHANGED clock

\* ContextManager.retrieve_contexts_by_type
RetrieveContextsByType(ctype) ==
    /\ hist.calls < MaxCalls
    /\ \E q \in {CM_retrieve_contexts_by_type(Cur, ctype, clock)} :
          /\ Becomes(q.s)
          /\ last' = [op |-> "retrieve_contexts_by_type", context_type |-> ctype,
                      returned |-> {q.r[i] : i \in DOMAIN q.r}, r |-> q.r,
                      expired_before |->
                          {c.context_id : c \in
                              {x \in {active_contexts[i] : i \in DOMAIN active_contexts} :
                                  is_expired(x, clock)}}]
          /\ hist' = Called(hist)
          /\ UNCHANGED clock

\* MemoryStore.retrieve_context, called on the store itself
StoreRetrieveContext(id) ==
    /\ hist.calls < MaxCalls
    /\ \E q \in {MS_retrieve_context(Cur, id, clock)} :
          /\ Becomes(q.s)
          /\ last' = [op |-> "store.retrieve_context", returned |-> q.r,
                      id |-> id, r |-> q.r,
                      expired_before |->
                          {i \in DOMAIN tbl_contexts :
                              is_expired(tbl_contexts[i], clock)}]
          /\ hist' = Called(hist)
          /\ UNCHANGED clock

\* MemoryStore.retrieve_contexts_by_type, called on the store itself
StoreRetrieveContextsByType(ctype) ==
    /\ hist.calls < MaxCalls
    /\ \E q \in {MS_retrieve_contexts_by_type(Cur, ctype, clock)} :
          /\ Becomes(q.s)
          /\ last' = [op |-> "store.retrieve_contexts_by_type",
                      context_type |-> ctype, returned |-> q.r, r |-> q.r,
                      expired_before |->
                          {i \in DOMAIN tbl_contexts :
                              is_expired(tbl_contexts[i], clock)}]
          /\ hist' = Called(hist)
          /\ UNCHANGED clock

\* ContextManager.get_agent_contexts
GetAgentContexts(agent_id) ==
    /\ hist.calls < MaxCalls
    /\ \E q \in {CM_get_agent_contexts(Cur, agent_id, clock)} :
          /\ Becomes(q.s)
          /\ last' = [op |-> "get_agent_contexts", agent_id |-> agent_id,
                      returned |-> {q.r[i] : i \in DOMAIN q.r}, r |-> q.r,
                      expired_before |->
                          {i \in DOMAIN active_contexts :
                              is_expired(active_contexts[i], clock)}]
          /\ hist' = Called(hist)
          /\ UNCHANGED clock

\* ContextManager.delete_context
DeleteContext(id) ==
    /\ hist.calls < MaxCalls
    /\ \E q \in {CM_delete_context(Cur, id)} :
          /\ Becomes(q.s)
          /\ last' = [op |-> "delete_context", returned |-> {}, id |-> id,
                      r |-> q.r]
          /\ hist' = [Called(hist) EXCEPT !.deleted = @ \cup {id}]
          /\ UNCHANGED clock

\* ContextManager.update_conversation_context
UpdateConversationContext(conversation_id, sender) ==
    /\ hist.calls < MaxCalls
    /\ \E q \in {CM_update_conversation_context(Cur, conversation_id,
                    [last_message_at |-> {clock}, last_message_from |-> sender],
                    clock)} :
          /\ Becomes(q.s)
          /\ last' = [op |-> "update_conversation_context", returned |-> {},
                      r |-> q.r, raised |-> q.exc]
          /\ hist' = Called(hist)
          /\ UNCHANGED clock

\* ContextManager.cleanup_expired_contexts.  The call is recorded with the
\* contexts that were past their expiry before it.
CleanupExpiredContexts ==
    /\ hist.calls < MaxCalls
    /\ \E q \in {CM_cleanup_expired_contexts(Cur, clock)} :
       \E all \in {{active_contexts[i] : i \in DOMAIN active_contexts}
                    \cup {tbl_contexts[i] : i \in DOMAIN tbl_contexts}} :
          /\ Becomes(q.s)
          /\ last' = [op |-> "cleanup_expired_contexts", returned |-> {},
                      r |-> q.r,
                      expired_before |->
                          {c.context_id : c \in
                              {x \in all : \E e \in x.expires_at : e < clock}}]
          /\ hist' = Called(hist)
          /\ UNCHANGED clock

\* ConversationManager.archive_conversation
ArchiveConversation(id) ==
    /\ hist.calls < MaxCalls
    /\ \E q \in {CV_archive_conversation(Cur, id, clock)} :
          /\ Becomes(q.s)
          /\ last' = [op |-> "archive_conversation", returned |-> {}, id |-> id,
                      r |-> q.r, raised |-> q.exc,
                      conversations_before |-> AllConversations(Cur)]
          /\ hist' = [Called(hist) EXCEPT !.untouched = @ /\ ~q.r]
          /\ UNCHANGED clock

\* ConversationManager.get_conversation
GetConversation(id) ==
    /\ hist.calls < MaxCalls
    /\ \E q \in {CV_get_conversation(Cur, id)} :
          /\ Becomes(q.s)
          /\ last' = [op |-> "get_conversation", returned |-> {}, id |-> id,
                      r |-> q.r, raised |-> q.exc]
          /\ hist' = Called(hist)
          /\ UNCHANGED clock

\* MCPServer.get_conversation_messages, which hands the call to the
\* conversation manager.
GetConversationMessages(id, limit) ==
    /\ hist.calls < MaxCalls
    /\ last' = [op |-> "get_conversation_messages", returned |-> {}, id |-> id,
                limit |-> limit,
                r |-> CV_get_conversation_messages(Cur, id, limit)]
    /\ hist' = Called(hist)
    /\ UNCHANGED <<clock, active_contexts, registered_agents,
                   active_conversations, tbl_contexts, tbl_agents,
                   tbl_conversations, tbl_messages, uuid_ctx, uuid_conv,
                   db_down, gathered>>

\* The process ends and a new MCPServer is built on the same database: the
\* managers start with empty caches, the tables are what they were.
Restart ==
    /\ hist.calls < MaxCalls
    /\ Becomes([Cur EXCEPT !.active_contexts = Empty,
                           !.registered_agents = Empty,
                           !.active_conversations = Empty])
    /\ last' = [op |-> "restart", returned |-> {}]
    /\ hist' = [Called(hist) EXCEPT !.loaded = {}]
    /\ UNCHANGED clock

\* ConversationManager.list_conversations
ListConversations(participant_id) ==
    /\ hist.calls < MaxCalls
    /\ last' = [op |-> "list_conversations", returned |-> {},
                participant_id |-> participant_id,
                r |-> CV_list_conversations(Cur, participant_id)]
    /\ hist' = Called(hist)
    /\ UNCHANGED <<clock, active_contexts, registered_agents,
                   active_conversations, tbl_contexts, tbl_agents,
                   tbl_conversations, tbl_messages, uuid_ctx, uuid_conv,
                   db_down, gathered>>

\* ContextManager.list_agents
ListAgents(agent_type, status) ==
    /\ hist.calls < MaxCalls
    /\ last' = [op |-> "list_agents", returned |-> {},
                agent_type |-> agent_type, status |-> status,
                r |-> CM_list_agents(Cur, agent_type, status)]
    /\ hist' = Called(hist)
    /\ UNCHANGED <<clock, active_contexts, registered_agents,
                   active_conversations, tbl_contexts, tbl_agents,
                   tbl_conversations, tbl_messages, uuid_ctx, uuid_conv,
                   db_down, gathered>>

\* MCPServer.get_contexts
GetContexts(context_type) ==
    /\ hist.calls < MaxCalls
    /\ \E q \in {get_contexts(Cur, context_type, clock)} :
          /\ Becomes(q.s)
          /\ last' = [op |-> "get_contexts", returned |-> q.returned,
                      context_type |-> context_type, r |-> q.r,
                      live_before |-> LiveContexts(Cur, clock)]
          /\ hist' = Called(hist)
          /\ UNCHANGED clock

\* Conversation.remove_participant, called on the Conversation object that
\* create_conversation or get_conversation handed out (the cached one).
\* was_participant is the boolean the method returns.
RemoveParticipant(id, agent_id) ==
    /\ hist.calls < MaxCalls
    /\ id \in DOMAIN active_conversations
    /\ \E cv \in {remove_participant(active_conversations[id], agent_id,
                                      clock)} :
          /\ Becomes([Cur EXCEPT !.active_conversations = Put(@, id, cv)])
          /\ last' = [op |-> "remove_participant", returned |-> {}, id |-> id,
                      agent_id |-> agent_id,
                      was_participant |->
                          InSeq(agent_id,
                                active_conversations[id].participants)]
          /\ hist' = [Called(hist) EXCEPT !.untouched = FALSE]
          /\ UNCHANGED clock

\* The status of agent id in the cache and in the store ({} where absent).
StatusIn(f, id) == {f[i].status : i \in (DOMAIN f) \cap {id}}

\* The contexts of the cache and of the store that are expired at now.
ExpiredContexts(s, now) ==
    {c \in {s.active_contexts[i] : i \in DOMAIN s.active_contexts}
            \cup {s.tbl_contexts[i] : i \in DOMAIN s.tbl_contexts} :
        is_expired(c, now)}

\* MCPServer.start
Start ==
    /\ hist.calls < MaxCalls
    /\ \E q \in {start(Cur, clock)} :
          /\ Becomes(q)
          /\ last' = [op |-> "start", returned |-> {},
                      cached_before |-> StatusIn(registered_agents, ServerId),
                      expired_before |->
                          {c.context_id : c \in ExpiredContexts(Cur, clock)}]
          /\ hist' = [Called(hist) EXCEPT !.started = TRUE]
          /\ UNCHANGED clock

\* MCPServer.stop
Stop ==
    /\ hist.calls < MaxCalls
    /\ \E q \in {stop(Cur, clock)} :
          /\ Becomes(q)
          /\ last' = [op |-> "stop", returned |-> {},
                      cached_before |-> StatusIn(registered_agents, ServerId),
                      stored_before |-> StatusIn(tbl_agents, ServerId),
                      after_start |-> hist.started]
          /\ hist' = Called(hist)
          /\ UNCHANGED clock

\* ContextManager.unregister_agent
UnregisterAgent(id) ==
    /\ hist.calls < MaxCalls
    /\ \E q \in {CM_unregister_agent(Cur, id)} :
          /\ Becomes(q.s)
          /\ last' = [op |-> "unregister_agent", returned |-> {},
                      agent |-> id, r |-> q.r]
          /\ hist' = [Called(hist) EXCEPT !.loaded = @ \ {id}]
          /\ UNCHANGED clock

\* ContextManager.update_agent_status.  The call is recorded with what held
\* before it: whether get_agent had loaded the cached copy, and whether an
\* earlier call for the stored agent was refused.
UpdateAgentStatus(id, status) ==
    /\ hist.calls < MaxCalls
    /\ \E q \in {CM_update_agent_status(Cur, id, status, clock)} :
          /\ Becomes(q.s)
          /\ last' = [op |-> "update_agent_status", returned |-> {},
                      agent |-> id, status |-> status, r |-> q.r,
                      loaded |-> id \in hist.loaded,
                      refused_before |-> id \in hist.refused]
          /\ hist' = [Called(hist) EXCEPT
                        !.refused = IF ~q.r /\ id \in DOMAIN tbl_agents
                                    THEN @ \cup {id} ELSE @]
          /\ UNCHANGED clock

\* ContextManager.get_agent
GetAgent(id) ==
    /\ hist.calls < MaxCalls
    /\ \E q \in {CM_get_agent(Cur, id)} :
          /\ Becomes(q.s)
          /\ last' = [op |-> "get_agent", returned |-> {}, agent |-> id,
                      r |-> q.r,
                      from_store |-> id \notin DOMAIN registered_agents]
          /\ hist' = [Called(hist) EXCEPT
                        !.loaded = IF id \notin DOMAIN registered_agents /\ q.r # {}
                                   THEN @ \cup {id} ELSE @]
          /\ UNCHANGED clock

\* The caches, the tables and the id counters of s.
Fields(s) == [s EXCEPT !.gathered = NoCoroutines]

\* asyncio.gather(process_message(raw1), process_message(raw2)): two
\* coroutines are created; nothing runs yet.
Gather(raw1, raw2) ==
    /\ hist.calls + 1 < MaxCalls
    /\ gathered = NoCoroutines
    /\ Becomes([Cur EXCEPT !.gathered =
                    [raws |-> <<raw1, raw2>>, pc |-> <<"created", "created">>,
                     base |-> {Fields(Cur)}]])
    /\ last' = [op |-> "gather", returned |-> {}]
    /\ hist' = Called(Called(hist))
    /\ UNCHANGED clock

\* The event loop picks coroutine i, which runs until it is suspended or
\* returns.
Resume(i) ==
    /\ i \in DOMAIN gathered.pc
    /\ gathered.pc[i] # "done"
    /\ \E q \in {resume(Cur, gathered.raws[i], gathered.pc[i], clock)} :
          /\ Becomes([q.s EXCEPT !.gathered.pc[i] = q.pc])
          /\ last' = [op |-> "resume", returned |-> {}, coroutine |-> i,
                      from |-> gathered.pc[i]]
          /\ UNCHANGED <<clock, hist>>

\* The four tables of the store.
Tables(s) ==
    [contexts |-> s.tbl_contexts, agents |-> s.tbl_agents,
     conversations |-> s.tbl_conversations, messages |-> s.tbl_messages]

\* A call of one method of the MemoryStore, c.op, on the argument c.arg; the
\* objects handed to the store_ methods are built by the caller first.
MS_call(s, c, now) ==
    CASE c.op = "store_context" ->
            MS_store_context([s EXCEPT !.uuid_ctx = @ + 1],
                NewContext(CtxId(s.uuid_ctx + 1), "general", D1, <<>>,
                           c.arg, now))
      [] c.op = "retrieve_context" -> MS_retrieve_context(s, c.arg, now)
      [] c.op = "retrieve_contexts_by_type" ->
            MS_retrieve_contexts_by_type(s, c.arg, now)
      [] c.op = "delete_context" -> MS_delete_context(s, c.arg)
      [] c.op = "store_message" ->
            MS_store_message(s,
                [id |-> c.arg, type |-> "SYSTEM_BROADCAST", sender_id |-> "A",
                 sender_type |-> "EXTERNAL_CLIENT", recipient_id |-> "",
                 timestamp |-> now, utcoffset |-> {},
                 conversation_id |-> NoConv])
      [] c.op = "store_conversation" ->
            MS_store_conversation(s,
                NewConversation(c.arg, <<"given", "T">>, <<"A">>, FALSE, now))
      [] c.op = "get_conversation" ->
            [s |-> s, r |-> MS_get_conversation(s, c.arg)]
      [] c.op = "store_agent" ->
            MS_store_agent(s, NewAgent(c.arg, "CHATBOT", now))
      [] c.op = "get_agent" -> [s |-> s, r |-> MS_get_agent(s, c.arg)]
      [] c.op = "cleanup_expired_contexts" ->
            MS_cleanup_expired_contexts(s, now)
      [] c.op = "get_statistics" -> [s |-> s, r |-> MS_get_statistics(s)]

\* One method of the MemoryStore is called directly.
StoreCall(c) ==
    /\ hist.calls < MaxCalls
    /\ \E q \in {MS_call(Cur, c, clock)} :
          /\ Becomes(q.s)
          /\ last' = [op |-> "store_call", returned |-> {}, call |-> c,
                      r |-> q.r, tables_before |-> Tables(Cur)]
          /\ hist' = Called(hist)
          /\ UNCHANGED clock

\* The database becomes unusable (the file is locked, the disk is full, the
\* directory is gone): every sqlite3 call raises from now on.
StorageFails ==
    /\ ~db_down
    /\ db_down' = TRUE
    /\ last' = [op |-> "storage_fails", returned |-> {}]
    /\ hist' = [hist EXCEPT !.tables_when_failed = Tables(Cur)]
    /\ UNCHANGED <<clock, active_contexts, registered_agents,
                   active_conversations, tbl_contexts, tbl_agents,
                   tbl_conversations, tbl_messages, uuid_ctx, uuid_conv,
                   gathered>>

\* The database is usable again.
StorageRecovers ==
    /\ db_down
    /\ db_down' = FALSE
    /\ last' = [op |-> "storage_recovers", returned |-> {}]
    /\ UNCHANGED <<clock, active_contexts, registered_agents,
                   active_conversations, tbl_contexts, tbl_agents,
                   tbl_conversations, tbl_messages, uuid_ctx, uuid_conv,
                   gathered, hist>>

\* cls.from_dict(m.to_dict()) for the envelope m at hand.
RoundTrip ==
    /\ last.op = "envelope"
    /\ last' = [op |-> "round_trip", returned |-> {}, m |-> last.m,
                back |-> from_dict([is_mapping |-> TRUE, d |-> ToDict(last.m)],
                                   clock)]
    /\ UNCHANGED <<clock, active_contexts, registered_agents,
                   active_conversations, tbl_contexts, tbl_agents,
                   tbl_conversations, tbl_messages, uuid_ctx, uuid_conv,
                   db_down, gathered, hist>>

----------------------------------------------------------------------------
(* Specifications.  Each one lets clients make the calls its claims are    *)
(* about, MaxCalls (MaxDispatch) of them in a run.                          *)

\* Any client submits any message.
Next ==
    \E id \in MessageIds : \E raw \in RawMessages(id) :
        hist.calls < MaxDispatch /\ ProcessMessage(raw)

Spec == Init /\ [][Next]_vars

\* The context manager: contexts are stored, shared, updated, retrieved,
\* deleted and cleaned up while time passes.
RetrieveMessages(id) ==
    {Raw(id, "memory_retrieve", "B", "", NoConv, Mapping([context_id |-> c])) :
        c \in CtxIdsKnown}
    \cup {Raw(id, "memory_retrieve", "B", "", NoConv,
              Mapping([memory_type |-> "general"]))}

NextContexts ==
    \/ Tick
    \/ \E e \in {{}, {1}} : StoreContext("general", D1, <<>>, e)
    \/ CreateConversationContext(ClientConv, <<"A">>)
    \/ RegisterAgent("A", "CHATBOT")
    \/ \E c \in CtxIdsKnown : \E a \in AgentIds : ShareContextWithAgent(c, a)
    \/ \E c \in CtxIdsKnown : RetrieveContext(c)
    \/ \E ty \in {"general", "conversation"} : RetrieveContextsByType(ty)
    \/ GetAgentContexts("A")
    \/ \E c \in CtxIdsKnown : StoreRetrieveContext(c)
    \/ StoreRetrieveContextsByType("general")
    \/ \E c \in CtxIdsKnown : DeleteContext(c)
    \/ UpdateConversationContext(ClientConv, "A")
    \/ CleanupExpiredContexts
    \/ \E id \in MessageIds : \E raw \in RetrieveMessages(id) :
          ProcessMessage(raw)

SpecContexts == Init /\ [][NextContexts]_vars

\* Conversations: agents register, start conversations and send messages.
ConversationMessages(id) ==
    {Raw(id, "agent_register", sd, "", NoConv, Mapping(Empty)) : sd \in AgentIds}
    \cup {Raw(id, "conversation_start", "A", "", NoConv, p) :
            p \in {Mapping(Empty),
                   Mapping([title |-> <<"given", "T">>,
                            participants |->
                                [is_list |-> TRUE, v |-> <<"A", "B">>]])}}
    \cup {Raw(id, "conversation_message", sd, "", c, Mapping(Empty)) :
            sd \in AgentIds, c \in ConvIdsKnown \cup {ClientConv}}

NextConversations ==
    \/ GetStatistics
    \/ \E id \in MessageIds : \E raw \in ConversationMessages(id) :
          ProcessMessage(raw)

SpecConversations == Init /\ [][NextConversations]_vars

\* Sharing: agents register, share and store contexts and read them back.
SharingMessages(id) ==
    {Raw(id, "agent_register", "B", "", NoConv, Mapping(Empty))}
    \cup {Raw(id, "context_share", "A", "B", NoConv, p) :
            p \in {Mapping([data |-> D1]),
                   Mapping([data |-> D1, expires_in_minutes |-> Minutes(1)]),
                   Mapping([context_type |-> "conversation",
                            data |-> ConvData(ClientConv)])}}
    \cup {Raw(id, "memory_store", "A", "", NoConv,
              Mapping([memory_type |-> "custom", data |-> D1]))}
    \cup {Raw(id, "memory_retrieve", "B", "", NoConv, Mapping([context_id |-> c])) :
            c \in CtxIdsKnown}
    \cup {Raw(id, "conversation_message", "A", "", ClientConv, Mapping(Empty))}

NextSharing ==
    \/ Tick
    \/ \E id \in MessageIds : \E raw \in SharingMessages(id) : ProcessMessage(raw)
    \/ \E c \in CtxIdsKnown : DeleteContext(c)

SpecSharing == Init /\ [][NextSharing]_vars

\* Memory: agents register, store memories with and without an expiry and a
\* recipient, and read them back while time passes.
MemoryMessages(id) ==
    {Raw(id, "memory_store", "A", rc, NoConv, p) :
        rc \in {"", "B"}, p \in MemoryStorePayloads}

NextMemory ==
    \/ Tick
    \/ \E id \in MessageIds :
          ProcessMessage(Raw(id, "agent_register", "B", "", NoConv, Mapping(Empty)))
    \/ \E id \in MessageIds : \E raw \in MemoryMessages(id) :
          ProcessMemoryStore(raw)
    \/ \E id \in MessageIds : \E raw \in RetrieveMessages(id) :
          ProcessMessage(raw)

SpecMemory == Init /\ [][NextMemory]_vars

\* Archiving: conversations are started, sent messages, ended and archived,
\* looked up again, and their participants removed.
ArchiveMessages(id) ==
    {Raw(id, "conversation_start", "A", "", NoConv, Mapping(Empty)),
     Raw(id, "context_share", "A", "", NoConv,
         Mapping([context_type |-> "conversation", data |-> ScalarData]))}
    \cup {Raw(id, "conversation_message", "B", "", c, Mapping(Empty)) :
            c \in ConvIdsKnown \cup {ClientConv}}
    \cup {Raw(id, "conversation_end", "A", "", c, p) :
            c \in ConvIdsKnown \cup {NoConv, ClientConv},
            p \in {Mapping(Empty)}
                  \cup {Mapping([conversation_id |-> x]) :
                          x \in ConvIdsKnown \cup {ClientConv}}}

NextArchive ==
    \/ \E id \in MessageIds : \E raw \in ArchiveMessages(id) :
          ProcessMessage(raw)
    \/ \E c \in ConvIdsKnown \cup {ClientConv} : ArchiveConversation(c)
    \/ \E c \in ConvIdsKnown \cup {ClientConv} : GetConversation(c)
    \/ \E c \in ConvIdsKnown : \E a \in AgentIds : RemoveParticipant(c, a)
    \/ GetStatistics

SpecArchive == Init /\ [][NextArchive]_vars

\* Lifecycle: the server is started and stopped, any number of times, while
\* contexts with and without an expiry are stored, time passes, and the
\* agent "mcp_server" is unregistered or registers and reports a status of
\* its own by message.
LifecycleMessages(id) ==
    {Raw(id, "agent_register", ServerId, "", NoConv, Mapping(Empty)),
     Raw(id, "agent_status", ServerId, "", NoConv, Mapping([status |-> "busy"]))}

NextLifecycle ==
    \/ Tick
    \/ Start
    \/ Stop
    \/ UnregisterAgent(ServerId)
    \/ \E e \in {{}, {1}} : StoreContext("general", D1, <<>>, e)
    \/ \E id \in MessageIds : \E raw \in LifecycleMessages(id) :
          ProcessMessage(raw)

SpecLifecycle == Init /\ [][NextLifecycle]_vars

\* Storage: the database fails and recovers at any time between two calls,
\* while the store is called directly, and through the managers and the
\* server.
StoreCalls ==
    {[op |-> "store_context", arg |-> e] : e \in {{}, {clock + 1}}}
    \cup {[op |-> o, arg |-> c] :
            o \in {"retrieve_context", "delete_context"},
            c \in CtxIdsKnown \cup {UnknownCtx}}
    \cup {[op |-> "retrieve_contexts_by_type", arg |-> "general"]}
    \cup {[op |-> "store_message", arg |-> id] : id \in MessageIds}
    \cup {[op |-> o, arg |-> c] :
            o \in {"store_conversation", "get_conversation"},
            c \in ConvIdsKnown \cup {ClientConv}}
    \cup {[op |-> o, arg |-> "A"] : o \in {"store_agent", "get_agent"}}
    \cup {[op |-> o, arg |-> {}] :
            o \in {"cleanup_expired_contexts", "get_statistics"}}

StorageMessages(id) ==
    {Raw(id, "conversation_start", "A", "", NoConv, Mapping(Empty)),
     Raw(id, "conversation_message", "B", "", ClientConv, Mapping(Empty)),
     Raw(id, "context_share", "A", "B", NoConv,
         Mapping([data |-> D1, expires_in_minutes |-> Minutes(1)])),
     Raw(id, "memory_retrieve", "B", "", NoConv,
         Mapping([memory_type |-> "general"])),
     Raw(id, "agent_register", "B", "", NoConv, Mapping(Empty)),
     Raw(id, "agent_status", "B", "", NoConv, Mapping([status |-> "busy"]))}
    \cup {Raw(id, "conversation_end", "A", "", NoConv,
               Mapping([conversation_id |-> c])) : c \in ConvIdsKnown}
    \cup {Raw(id, "memory_retrieve", "B", "", NoConv,
               Mapping([context_id |-> c])) : c \in CtxIdsKnown}

\* The run of the storage specification has calls left.
Few == hist.calls < MaxStorageCalls

NextStorage ==
    \/ Tick
    \/ StorageFails
    \/ StorageRecovers
    \/ \E c \in StoreCalls : Few /\ StoreCall(c)
    \/ \E id \in MessageIds : \E raw \in StorageMessages(id) :
          Few /\ ProcessMessage(raw)
    \/ \E c \in CtxIdsKnown : Few /\ RetrieveContext(c)
    \/ \E c \in CtxIdsKnown : Few /\ ShareContextWithAgent(c, "B")
    \/ Few /\ CleanupExpiredContexts
    \/ \E c \in ConvIdsKnown \cup {ClientConv} :
          Few /\ ArchiveConversation(c)
    \/ \E c \in ConvIdsKnown \cup {ClientConv} : Few /\ GetConversation(c)
    \/ Few /\ GetStatistics
    \/ Few /\ Start
    \/ Few /\ Stop

SpecStorage == Init /\ [][NextStorage]_vars

\* Retrieval: contexts of two types are stored with and without an expiry
\* and deleted, time passes, and memory_retrieve messages name a context, a
\* type, both or neither.
RetrievalPayloads ==
    {Mapping(Empty), NotAMapping}
    \cup {Mapping([context_id |-> c]) :
             c \in CtxIdsKnown \cup {UnknownCtx, NoCtx, Unhashable}}
    \cup {Mapping([memory_type |-> ty]) : ty \in {"general", "conversation", ""}}
    \cup {Mapping([context_id |-> c, memory_type |-> ty]) :
             c \in CtxIdsKnown \cup {UnknownCtx, NoCtx},
             ty \in {"general", ""}}

NextRetrieval ==
    \/ Tick
    \/ \E ty \in {"general", "conversation"} : \E e \in {{}, {1}} :
          StoreContext(ty, D1, <<>>, e)
    \/ \E c \in CtxIdsKnown : DeleteContext(c)
    \/ \E id \in MessageIds : \E p \in RetrievalPayloads :
          ProcessMessage(Raw(id, "memory_retrieve", "B", "", NoConv, p))

SpecRetrieval == Init /\ [][NextRetrieval]_vars

\* Companion contexts: conversations are started, sent messages and ended,
\* clients share contexts of their own about them, some expiring, and
\* contexts are retrieved, cleaned up and deleted while time passes.
CompanionMessages(id) ==
    {Raw(id, "conversation_start", "A", "", NoConv, p) :
        p \in {Mapping(Empty),
               Mapping([title |-> <<"given", "T">>,
                        participants |->
                            [is_list |-> TRUE, v |-> <<"A", "B">>]])}}
    \cup {Raw(id, "context_share", "B", "", NoConv,
               Mapping([context_type |-> "conversation", data |-> ConvData(c),
                        expires_in_minutes |-> Minutes(1)])) :
             c \in ConvIdsKnown}
    \cup {Raw(id, ty, "B", "", c, Mapping(Empty)) :
             ty \in {"conversation_message", "conversation_end"},
             c \in ConvIdsKnown}

NextCompanion ==
    \/ Tick
    \/ \E id \in MessageIds : \E raw \in CompanionMessages(id) :
          ProcessMessage(raw)
    \/ \E c \in CtxIdsKnown : RetrieveContext(c)
    \/ RetrieveContextsByType("conversation")
    \/ CleanupExpiredContexts
    \/ \E c \in CtxIdsKnown : DeleteContext(c)

SpecCompanion == Init /\ [][NextCompanion]_vars

\* Listing: clients store contexts of the built-in types and of types of
\* their own, with and without expiry, time passes, and the contexts are
\* listed, of one type or of all.
ListingMessages(id) ==
    {Raw(id, "context_share", "A", "", NoConv,
         Mapping([context_type |-> ty, data |-> D1, expires_in_minutes |-> e])) :
        ty \in {"general", "custom"}, e \in {NoExpiry, Minutes(1)}}
    \cup {Raw(id, "memory_store", "A", "", NoConv,
               Mapping([memory_type |-> ty, data |-> D1])) :
             ty \in {"system", "custom"}}
    \cup {Raw(id, "conversation_start", "A", "", NoConv, Mapping(Empty))}

NextListing ==
    \/ Tick
    \/ \E id \in MessageIds : \E raw \in ListingMessages(id) :
          ProcessMessage(raw)
    \/ \E ty \in {"", "general", "custom"} : GetContexts(ty)

SpecListing == Init /\ [][NextListing]_vars

\* Agents: a manager is built on a database that is new or holds the agent
\* "A" an earlier manager registered; agents are registered, unregistered,
\* looked up and report their status, by call and by message, the server
\* starts and stops, and time passes.
InitAgents ==
    /\ clock = 0
    /\ active_contexts = Empty
    /\ registered_agents = Empty
    /\ active_conversations = Empty
    /\ tbl_contexts = Empty
    /\ tbl_agents \in {Empty, Put(Empty, "A", NewAgent("A", "CHATBOT", 0))}
    /\ tbl_conversations = Empty
    /\ tbl_messages = Empty
    /\ uuid_ctx = 0
    /\ uuid_conv = 0
    /\ db_down = FALSE
    /\ gathered = NoCoroutines
    /\ last = [op |-> "init", returned |-> {}]
    /\ hist = NoHist

AgentMessages(id) ==
    {Raw(id, "agent_register", "B", "", NoConv, Mapping(Empty)),
     Raw(id, "agent_status", "A", "", NoConv, Mapping([status |-> "idle"]))}

NextAgents ==
    \/ Tick
    \/ RegisterAgent("A", "CHATBOT")
    \/ \E a \in AgentIds : UnregisterAgent(a)
    \/ \E a \in AgentIds : UpdateAgentStatus(a, "busy")
    \/ \E a \in AgentIds : GetAgent(a)
    \/ \E id \in MessageIds : \E raw \in AgentMessages(id) :
          ProcessMessage(raw)
    \/ Start
    \/ Stop

SpecAgents == InitAgents /\ [][NextAgents]_vars

\* Eviction: contexts are stored with and without an expiry, time passes,
\* the server is restarted on its database, and contexts are retrieved by
\* id from the manager.
NextEviction ==
    \/ Tick
    \/ \E e \in {{}, {1}} : StoreContext("general", D1, <<>>, e)
    \/ \E c \in CtxIdsKnown : RetrieveContext(c)
    \/ Restart

SpecEviction == Init /\ [][NextEviction]_vars

\* Listings: a server is built on a database that is new or holds the
\* conversations of earlier runs, more of them than the store lists in one
\* call; agents register, conversations are started and sent messages,
\* contexts are stored, the server is restarted, and contexts, agents and
\* conversations are listed.
StoredBefore == 51

\* The conversation a run n time units before this one left in the store;
\* the oldest of them was archived.
Earlier(n) ==
    [NewConversation(ConvUuid(n), <<"started_by", "A">>, <<"A">>, FALSE, 0 - n)
        EXCEPT !.status = IF n = StoredBefore THEN "archived" ELSE "active"]

InitListings ==
    /\ clock = 0
    /\ active_contexts = Empty
    /\ registered_agents = Empty
    /\ active_conversations = Empty
    /\ tbl_contexts = Empty
    /\ tbl_agents = Empty
    /\ \E n \in {0, StoredBefore} :
          /\ tbl_conversations = [i \in {ConvUuid(k) : k \in 1..n} |-> Earlier(i[2])]
          /\ uuid_conv = n
    /\ tbl_messages = Empty
    /\ uuid_ctx = 0
    /\ db_down = FALSE
    /\ gathered = NoCoroutines
    /\ last = [op |-> "init", returned |-> {}]
    /\ hist = NoHist

ListingsMessages(id) ==
    {Raw(id, "conversation_start", "B", "", NoConv, Mapping(Empty)),
     Raw(id, "conversation_message", "B", "", ConvUuid(1), Mapping(Empty)),
     Raw(id, "agent_register", "B", "", NoConv, Mapping(Empty))}

NextListings ==
    \/ Tick
    \/ \E id \in MessageIds : \E raw \in ListingsMessages(id) :
          ProcessMessage(raw)
    \/ RegisterAgent("A", "CHATBOT")
    \/ \E e \in {{}, {1}} : StoreContext("general", D1, <<>>, e)
    \/ Restart
    \/ \E p \in {"", "A", "B"} : ListConversations(p)
    \/ \E ty \in {"", "CHATBOT"} : \E st \in {"", "active"} : ListAgents(ty, st)
    \/ RetrieveContextsByType("general")

SpecListings == InitListings /\ [][NextListings]_vars

\* Conversation history: messages of every type arrive with a conversation
\* id, with a payload their handler accepts or one it rejects, and the
\* history of a conversation is read with a small limit or the default one.
MaxHistoryCalls == 3
HistoryIds == {ClientConv, Unhashable}
Limits == {1, DefaultLimit}

HistoryMessages(id) ==
    {Raw(id, ty, "A", "", c, p) :
        ty \in {MessageType[k] : k \in DOMAIN MessageType},
        c \in HistoryIds, p \in {Mapping(Empty), NotAMapping}}

NextHistory ==
    \/ Tick
    \/ \E id \in MessageIds : \E raw \in HistoryMessages(id) :
          hist.calls < MaxHistoryCalls /\ ProcessMessage(raw)
    \/ \E c \in HistoryIds : \E limit \in Limits :
          hist.calls < MaxHistoryCalls /\ GetConversationMessages(c, limit)

SpecHistory == Init /\ [][NextHistory]_vars

\* Shared contexts: on a database that may have an agent of an earlier run,
\* contexts of a built-in and of a caller-defined type are stored and shared,
\* conversation contexts are created, time passes, the server is restarted
\* and the contexts of the agent are asked for.
NextShared ==
    \/ Tick
    \/ \E ty \in {"general", "custom"} : \E e \in {{}, {1}} :
          StoreContext(ty, D1, <<>>, e)
    \/ RegisterAgent("A", "CHATBOT")
    \/ \E c \in CtxIdsKnown : ShareContextWithAgent(c, "A")
    \/ CreateConversationContext(ClientConv, <<"A">>)
    \/ \E c \in CtxIdsKnown : DeleteContext(c)
    \/ Restart
    \/ GetAgentContexts("A")

SpecShared == InitAgents /\ [][NextShared]_vars

\* Participants: conversations are started with the participants the
\* payload names or with none named, and messages with and without a
\* recipient are sent to them and to a conversation of the client's naming.
ParticipantLists == {<<"A", "B">>, <<"A", "A">>}

ParticipantMessages(id) ==
    {Raw(id, "conversation_start", "A", "", NoConv, Mapping(Empty))}
    \cup {Raw(id, "conversation_start", "A", "", NoConv,
               Mapping([participants |-> [is_list |-> TRUE, v |-> ps]])) :
            ps \in ParticipantLists}
    \cup {Raw(id, "conversation_message", sd, rc, c, Mapping(Empty)) :
            sd \in AgentIds, rc \in {"", "A"},
            c \in ConvIdsKnown \cup {ClientConv}}

NextParticipants ==
    \/ Tick
    \/ \E id \in MessageIds : \E raw \in ParticipantMessages(id) :
          hist.calls < MaxHistoryCalls /\ ProcessMessage(raw)

SpecParticipants == Init /\ [][NextParticipants]_vars

\* Expiry: contexts are stored with no expires_in_minutes and with a
\* negative, a zero and a positive one, time passes and they are retrieved.
ExpiryMinutes == {{}, {0 - 1}, {0}, {1}}

NextExpiry ==
    \/ Tick
    \/ \E e \in ExpiryMinutes : StoreContext("general", D1, <<>>, e)
    \/ \E c \in CtxIdsKnown : RetrieveContext(c)

SpecExpiry == Init /\ [][NextExpiry]_vars

\* Write-through: contexts are stored, some with the metadata dict of an
\* earlier call, shared with agents, updated, retrieved, deleted and cleaned
\* up while time passes; the store does not fail.
NextWriteThrough ==
    \/ Tick
    \/ \E e \in {{}, {1}} : StoreContext("general", D1, <<>>, e)
    \/ \E c \in CtxIdsKnown : StoreContextSameMetadata("general", D1, c, {})
    \/ CreateConversationContext(ClientConv, <<"A">>)
    \/ RegisterAgent("A", "CHATBOT")
    \/ \E c \in CtxIdsKnown : ShareContextWithAgent(c, "A")
    \/ \E c \in CtxIdsKnown : RetrieveContext(c)
    \/ RetrieveContextsByType("general")
    \/ GetAgentContexts("A")
    \/ \E c \in CtxIdsKnown : DeleteContext(c)
    \/ UpdateConversationContext(ClientConv, "A")
    \/ CleanupExpiredContexts

SpecWriteThrough == InitAgents /\ [][NextWriteThrough]_vars

\* Archived conversations: on a database that is new or holds the
\* conversations of earlier runs, the oldest archived, conversations are
\* started, sent messages, ended and archived, got and listed, and the
\* server is restarted.
Targets == {ConvUuid(StoredBefore), ConvUuid(uuid_conv)}

ArchivedMessages(id) ==
    {Raw(id, "conversation_start", "A", "", NoConv, Mapping(Empty))}
    \cup {Raw(id, ty, "B", "", c, Mapping(Empty)) :
            ty \in {"conversation_message", "conversation_end"}, c \in Targets}

NextArchived ==
    \/ Tick
    \/ \E id \in MessageIds : \E raw \in ArchivedMessages(id) :
          ProcessMessage(raw)
    \/ \E c \in Targets : ArchiveConversation(c)
    \/ \E c \in Targets : GetConversation(c)
    \/ \E p \in {"", "B"} : ListConversations(p)
    \/ Restart

SpecArchived == InitListings /\ [][NextArchived]_vars

\* Timestamps: clients send conversation messages that carry a timestamp of
\* their own, with a UTC offset, or none, and the history is read.
MaxReading == 1
Offsets == {{}, {0}, {1}}

Stamped(id, conv, reading, utcoffset) ==
    [is_mapping |-> TRUE,
     d |-> [timestamp |-> reading, utcoffset |-> utcoffset]
           @@ Raw(id, "conversation_message", "A", "", conv, Mapping(Empty)).d]

TimestampMessages(id) ==
    {Raw(id, "conversation_message", "A", "", c, Mapping(Empty)) :
        c \in {ClientConv, ConvUuid(1)}}
    \cup {Stamped(id, ClientConv, n, o) : n \in 0..MaxReading, o \in Offsets}

NextTimestamps ==
    \/ Tick
    \/ \E id \in MessageIds : \E raw \in TimestampMessages(id) :
          hist.calls < MaxHistoryCalls /\ ProcessMessage(raw)
    \/ \E c \in {ClientConv, ConvUuid(1)} : \E limit \in Limits :
          hist.calls < MaxHistoryCalls /\ GetConversationMessages(c, limit)

SpecTimestamps == Init /\ [][NextTimestamps]_vars

\* Concurrency: after some messages processed one at a time, two
\* process_message coroutines are run together by the event loop.
ConcurrentMessages(id) ==
    {Raw(id, "conversation_start", "A", "", NoConv, Mapping(Empty)),
     Raw(id, "agent_register", "B", "", NoConv, Mapping(Empty)),
     Raw(id, "context_share", "A", "B", NoConv, Mapping([data |-> D1]))}
    \cup {Raw(id, "conversation_message", "B", "", c, Mapping(Empty)) :
            c \in ConvIdsKnown \cup {ClientConv}}
    \cup {Raw(id, "conversation_end", "A", "", c, Mapping(Empty)) :
            c \in ConvIdsKnown}
    \cup {Raw(id, "memory_retrieve", "B", "", NoConv,
               Mapping([context_id |-> c])) : c \in CtxIdsKnown}

NextConcurrent ==
    \/ \E id \in MessageIds : \E raw \in ConcurrentMessages(id) :
          gathered = NoCoroutines /\ ProcessMessage(raw)
    \/ \E raw1 \in ConcurrentMessages(MsgId(Cardinality(DOMAIN tbl_messages) + 1)) :
       \E raw2 \in ConcurrentMessages(MsgId(Cardinality(DOMAIN tbl_messages) + 2)) :
          Gather(raw1, raw2)
    \/ \E i \in {1, 2} : Resume(i)

SpecConcurrent == Init /\ [][NextConcurrent]_vars

\* Envelopes: any envelope is written to a dictionary and read back.
InitRoundTrip ==
    /\ clock = 0
    /\ active_contexts = Empty
    /\ registered_agents = Empty
    /\ active_conversations = Empty
    /\ tbl_contexts = Empty
    /\ tbl_agents = Empty
    /\ tbl_conversations = Empty
    /\ tbl_messages = Empty
    /\ uuid_ctx = 0
    /\ uuid_conv = 0
    /\ db_down = FALSE
    /\ gathered = NoCoroutines
    /\ last \in {[op |-> "envelope", returned |-> {}, m |-> e] : e \in Envelopes}
    /\ hist = NoHist

NextRoundTrip == RoundTrip

SpecRoundTrip == InitRoundTrip /\ [][NextRoundTrip]_vars

----------------------------------------------------------------------------
(* Properties *)

\* The last call was process_message of a message of the type that decoded
\* and whose handler answered.
Handled(type) ==
    /\ last.op = "process_message"
    /\ last.handled
    /\ "type" \in DOMAIN last.raw.d
    /\ last.raw.d.type = type

\* C1: every raw message submitted to process_message, of any of the nine
\* types, with any payload, decodable or not, is answered with exactly one
\* response whose success field is a boolean, and no exception leaves the
\* call.
C1_OneResponse ==
    last.op = "process_message" =>
        /\ ~last.raised
        /\ Cardinality(last.r) = 1
        /\ \A r \in last.r : r.success \in BOOLEAN

\* A message the handlers never saw or could not finish is answered by the
\* outer except with success = false.
C1_Witness ==
    /\ last.op = "process_message"
    /\ ~last.handled
    /\ \E r \in last.r : ~r.success /\ r.error_message # ""

\* C2: no retrieval (retrieve_context, retrieve_contexts_by_type and
\* get_agent_contexts of the manager, retrieve_context and
\* retrieve_contexts_by_type of the store, a memory_retrieve message) returns
\* a context whose expires_at is set and earlier than the current time.
C2_NoExpiredReturned ==
    \A c \in last.returned : ~(\E e \in c.expires_at : e < clock)

\* A retrieval by type returns a context while the cache holds an expired one.
C2_Witness ==
    /\ last.op = "retrieve_contexts_by_type"
    /\ last.expired_before # {}
    /\ last.returned # {}

\* C3 as stated: a second conversation_message with a conversation id X that
\* an earlier conversation_message carried creates no conversation (the
\* conversations in cache and store stay the same).
C3_SecondMessageCreatesNothing ==
    (/\ Handled("conversation_message")
     /\ last.raw.d.conversation_id \in last.messaged_before)
    => AllConversations(Cur) = last.conversations_before

\* C4 as stated: of the calls of share_context_with_agent for a resolvable
\* context and agent, the first returns true, the second returns false and
\* changes nothing, and the agent is in shared_with exactly once.
C4_FirstTrueSecondFalse ==
    (last.op = "share_context_with_agent" /\ last.resolvable) =>
        /\ last.r = last.first
        /\ Count(active_contexts[last.context_id].metadata.shared_with,
                 last.agent_id) = 1
        /\ ~last.first =>
              /\ active_contexts = last.before.active_contexts
              /\ tbl_contexts = last.before.tbl_contexts

\* C4: a call of share_context_with_agent for a resolvable context and agent
\* returns true exactly when the agent was not in shared_with, and leaves
\* the agent in shared_with exactly once, in the cache and in the store; a
\* call that returns false, as every call after the first does, changes no
\* context.
C4_SharedOnce ==
    (last.op = "share_context_with_agent" /\ last.resolvable) =>
        /\ last.r = ~last.already
        /\ ~last.first => ~last.r
        /\ Count(active_contexts[last.context_id].metadata.shared_with,
                 last.agent_id) = 1
        /\ tbl_contexts[last.context_id] = active_contexts[last.context_id]
        /\ ~last.r =>
              /\ active_contexts = last.before.active_contexts
              /\ tbl_contexts = last.before.tbl_contexts

\* The second call for a pair that was shared: it returns false.
C4_Witness ==
    /\ last.op = "share_context_with_agent"
    /\ last.resolvable
    /\ ~last.first
    /\ ~last.r

\* C5: a context stored with expires_in_minutes = N, N >= 1, is returned by
\* retrieve_context at the time of its creation; once the clock is past
\* creation plus N minutes retrieve_context returns None for it; and once
\* retrieve_context has returned None for it, it does so ever after.
C5_ExpiresAfterN ==
    (last.op = "retrieve_context" /\ last.id \in DOMAIN hist.stored) =>
        \A n \in hist.stored[last.id].expires_in_minutes :
            n >= 1 =>
                /\ (/\ clock = hist.stored[last.id].created_at
                    /\ last.id \notin hist.deleted)
                   => \E c \in last.r : c.context_id = last.id
                /\ clock > hist.stored[last.id].created_at + n => last.r = {}
                /\ last.id \in last.gone_before => last.r = {}

\* A context with an expiry is looked for after it expired, and not found.
C5_Witness ==
    /\ last.op = "retrieve_context"
    /\ last.id \in DOMAIN hist.stored
    /\ last.id \notin hist.deleted
    /\ \E n \in hist.stored[last.id].expires_in_minutes :
          n >= 1 /\ clock > hist.stored[last.id].created_at + n
    /\ last.r = {}

\* C6 as stated: after a context_share with recipient_id R is answered with
\* success = true, the context whose id the response carries has R in
\* metadata['shared_with'].
C6_RecipientInSharedWith ==
    (/\ Handled("context_share")
     /\ last.raw.d.recipient_id # ""
     /\ \E r \in last.r : r.success)
    => \A r \in last.r : \A c \in r.response_data.context_id :
          /\ c \in DOMAIN active_contexts
          /\ InSeq(last.raw.d.recipient_id,
                   active_contexts[c].metadata.shared_with)

\* The last call was a memory_retrieve for a context id that a successful
\* context_share or memory_store returned, not deleted and not expired.
RetrievesIssued ==
    /\ Handled("memory_retrieve")
    /\ last.raw.d.payload.is_mapping
    /\ "context_id" \in DOMAIN last.raw.d.payload.f
    /\ last.raw.d.payload.f.context_id \in DOMAIN hist.issued
    /\ last.raw.d.payload.f.context_id \notin hist.deleted
    /\ ~(\E e \in hist.issued[last.raw.d.payload.f.context_id].expires_at :
            e < clock)

\* The memory_retrieve succeeded and showed the context with the data it was
\* issued with and, if its recipient was a registered agent, with the
\* recipient in shared_with.
RetrievedAsIssued ==
    \A r \in last.r :
        /\ r.success
        /\ r.response_data.context # {}
        /\ \A v \in r.response_data.context :
              /\ v.context_id = last.raw.d.payload.f.context_id
              /\ v.data = hist.issued[v.context_id].data
              /\ hist.issued[v.context_id].resolved =>
                    InSeq(hist.issued[v.context_id].recipient,
                          v.metadata.shared_with)

\* C7 as stated: a context id returned by a successful context_share or
\* memory_store is retrievable by memory_retrieve with unchanged data (and
\* with the registered recipient in shared_with) as long as it has not
\* expired or been deleted.
C7_RetrievedUnchanged == RetrievesIssued => RetrievedAsIssued

\* The context is of type conversation and a conversation_message was
\* processed for the conversation id its data names.
ConversationUpdated(id) ==
    /\ hist.issued[id].context_type = "conversation"
    /\ hist.issued[id].data.shape = "mapping"
    /\ hist.issued[id].data.conversation_id \in hist.messaged

\* C7: a context id returned by a successful context_share or memory_store
\* is retrievable by memory_retrieve, with the registered recipient in
\* shared_with and with unchanged data, as long as it has not expired or
\* been deleted and is not a conversation context whose conversation has
\* been sent a message.
C7_RetrievedUnchangedUnlessUpdated ==
    (RetrievesIssued /\ ~ConversationUpdated(last.raw.d.payload.f.context_id))
    => RetrievedAsIssued

\* B reads back the context A shared with it.
C7_Witness ==
    /\ RetrievesIssued
    /\ hist.issued[last.raw.d.payload.f.context_id].resolved
    /\ last.raw.d.sender_id = hist.issued[last.raw.d.payload.f.context_id].recipient
    /\ \E r \in last.r : r.success

\* C8 as stated: cleanup_expired_contexts returns k when exactly k of the
\* contexts stored through the manager are past their expiry.
C8_CleanupReturnsK ==
    last.op = "cleanup_expired_contexts" =>
        last.r = Cardinality(last.expired_before)

\* C9: after n distinct agents registered and m conversations were created
\* with p participants each, none archived and none sent a message, the
\* statistics report registered_agents = n, active_conversations = m and
\* total_participants = m * p.
C9_Statistics ==
    (last.op = "get_statistics" /\ hist.untouched) =>
        /\ last.r.contexts.registered_agents = Cardinality(hist.registered)
        /\ last.r.conversations.active_conversations = hist.created
        /\ last.r.conversations.total_participants = hist.participants
        /\ \A p \in hist.sizes :
              hist.sizes = {p} =>
                 last.r.conversations.total_participants = hist.created * p

\* Two agents, two conversations of the same two participants each.
C9_Witness ==
    /\ last.op = "get_statistics"
    /\ hist.untouched
    /\ Cardinality(hist.registered) = 2
    /\ hist.created = 2
    /\ hist.sizes = {2}

\* C10: for every message, request and response envelope m,
\* from_dict(to_dict(m)) is an envelope with the id, type, sender id, sender
\* type and payload of m.
C10_RoundTrip ==
    last.op = "round_trip" =>
        /\ last.back.ok
        /\ last.back.m.id = last.m.id
        /\ last.back.m.type = last.m.type
        /\ last.back.m.sender_id = last.m.sender_id
        /\ last.back.m.sender_type = last.m.sender_type
        /\ last.back.m.payload = last.m.payload

\* A response envelope with a payload, of a type and a sender type that are
\* not the defaults, went through the dictionary.
C10_Witness ==
    /\ last.op = "round_trip"
    /\ last.m.class = "MCPResponse"
    /\ last.m.type = "MEMORY_RETRIEVE"
    /\ last.m.sender_type = "CHATBOT"
    /\ last.m.payload.f # Empty
    /\ last.back.ok

\* C11 as stated: every response of process_message with success = false
\* carries an error_message that is not None.
C11_FailureHasErrorMessage ==
    last.op = "process_message" =>
        \A r \in last.r : ~r.success => r.error_message # ""

\* C12 as stated: every response a handler produced, success or failure, has
\* the sender_id of the incoming message as its recipient_id.
C12_AddressedToSender ==
    (last.op = "process_message" /\ last.handled) =>
        \A r \in last.r : r.recipient_id = last.raw.d.sender_id

\* C13 as stated: the request_id of the response of process_message is the
\* request_id of the raw message when it carries one, and the id of the raw
\* message when it carries none.
C13_RequestIdEchoed ==
    (last.op = "process_message" /\ last.raw.is_mapping) =>
        \A r \in last.r :
            r.request_id = IF "request_id" \in DOMAIN last.raw.d
                           THEN last.raw.d.request_id
                           ELSE last.raw.d.id

\* The raw message names a type or a sender_type that is no value of the
\* enum.
UnknownEnumValue(raw) ==
    /\ raw.is_mapping
    /\ \/ "type" \in DOMAIN raw.d /\ ~IsValue(MessageType, raw.d.type)
       \/ /\ "sender_type" \in DOMAIN raw.d
          /\ ~IsValue(AgentType, raw.d.sender_type)

\* C19: a raw message whose type or sender_type is no known enum value is
\* answered with one failure response and changes nothing: the caches and
\* the tables of contexts, agents, conversations and messages are as before.
C19_UnknownEnumChangesNothing ==
    (last.op = "process_message" /\ UnknownEnumValue(last.raw)) =>
        /\ Cardinality(last.r) = 1
        /\ \A r \in last.r : ~r.success /\ r.error_message # ""
        /\ ~last.changed

\* A message with an unknown enum value arrives at a server that holds
\* something, and is refused.
C19_Witness ==
    /\ last.op = "process_message"
    /\ UnknownEnumValue(last.raw)
    /\ \E r \in last.r : ~r.success
    /\ DOMAIN tbl_contexts # {}
    /\ DOMAIN tbl_messages # {}

\* C15 as stated: a memory_store message and the context_share message with
\* the same data, metadata, expires_in_minutes and recipient_id, its
\* context_type being the memory_type, both succeed, both store one context,
\* of the same type, data, expiry and shared_with, and both return the id of
\* the context they stored.
C15_MemoryStoreAsContextShare ==
    (/\ Handled("memory_store")
     /\ "as_context_share" \in DOMAIN last
     /\ last.raw.d.payload.is_mapping)
    => /\ \A r \in last.r : r.success
       /\ \A r \in last.as_context_share.r : r.success
       /\ Cardinality(last.stored) = 1
       /\ Cardinality(last.as_context_share.stored) = 1
       /\ \A r \in last.r :
             r.response_data.context_id = {c.context_id : c \in last.stored}
       /\ \A r \in last.as_context_share.r :
             r.response_data.context_id =
                 {c.context_id : c \in last.as_context_share.stored}
       /\ \A c \in last.stored : \A d \in last.as_context_share.stored :
             /\ c.context_type = d.context_type
             /\ c.data = d.data
             /\ c.expires_at = d.expires_at
             /\ c.metadata.shared_with = d.metadata.shared_with

\* C14 as stated: in every state, for every row of the messages table with
\* conversation_id X and every conversation with id X, cached or stored, the
\* sender_id of the message is in the participants of the conversation.
C14_SendersAreParticipants ==
    \A i \in DOMAIN tbl_messages :
        /\ tbl_messages[i].conversation_id \in DOMAIN active_conversations =>
              InSeq(tbl_messages[i].sender_id,
                    active_conversations[tbl_messages[i].conversation_id].participants)
        /\ tbl_messages[i].conversation_id \in DOMAIN tbl_conversations =>
              InSeq(tbl_messages[i].sender_id,
                    tbl_conversations[tbl_messages[i].conversation_id].participants)

\* The last call was process_message of a conversation_end with a mapping as
\* payload.
EndProcessed ==
    /\ last.op = "process_message"
    /\ last.raw.is_mapping
    /\ "type" \in DOMAIN last.raw.d
    /\ last.raw.d.type = "conversation_end"
    /\ last.raw.d.payload.is_mapping

\* The conversation id a conversation_end names: the payload's, else the
\* envelope's.
EndNamed(raw) == Get(raw.d.payload.f, "conversation_id", raw.d.conversation_id)

\* C16 as stated: a conversation_end never raises; it is answered with
\* success = true exactly when the conversation named by the payload's
\* conversation_id, or else by the envelope's, existed, and that conversation
\* is then stored with status 'archived'; with no id supplied or an unknown
\* one the answer is success = false.
C16_EndArchivesNamed ==
    EndProcessed =>
        /\ ~last.raised
        /\ \A r \in last.r :
              r.success = (EndNamed(last.raw) \in last.conversations_before)
        /\ \A r \in last.r :
              r.success =>
                 /\ EndNamed(last.raw) \in DOMAIN tbl_conversations
                 /\ tbl_conversations[EndNamed(last.raw)].status = "archived"

\* C17 as stated: every conversation in the active cache of the
\* ConversationManager has status 'active'.
C17_CachedAreActive ==
    \A i \in DOMAIN active_conversations :
        active_conversations[i].status = "active"

\* The agent "mcp_server" has the given status in the cache and in the store.
ServerStatusIs(status) ==
    /\ StatusIn(registered_agents, ServerId) = {status}
    /\ StatusIn(tbl_agents, ServerId) = {status}

\* C18, the part about start: after start() the agent "mcp_server" is
\* registered with status 'active', in the cache and in the store, and no
\* context of the cache or of the store is expired; this also holds for a
\* start() that follows a stop().
AfterStart ==
    last.op = "start" =>
        /\ ServerStatusIs("active")
        /\ ExpiredContexts(Cur, clock) = {}

\* C18 as stated: besides, after a stop() that follows a start() the status
\* of "mcp_server" is 'stopped' in the cache and in the store.
C18_StartStopStart ==
    /\ AfterStart
    /\ (last.op = "stop" /\ last.after_start) => ServerStatusIs("stopped")

\* C18 amended: after a stop() that follows a start() the status of
\* "mcp_server" is 'stopped' in the cache and in the store when the agent
\* was in the cache of registered agents at the time of the stop();
\* otherwise stop() changes nothing.
C18_StopOfCachedServer ==
    /\ AfterStart
    /\ (last.op = "stop" /\ last.after_start) =>
          IF last.cached_before # {}
          THEN ServerStatusIs("stopped")
          ELSE /\ StatusIn(registered_agents, ServerId) = {}
               /\ StatusIn(tbl_agents, ServerId) = last.stored_before

\* A start() of a stopped server, with an expired context to clean up.
C18_Witness ==
    /\ last.op = "start"
    /\ last.cached_before = {"stopped"}
    /\ last.expired_before # {}
    /\ hist.started

\* What each method of the MemoryStore returns from its except branch: False
\* for the writes, None (no object) for the reads of one object, the empty
\* list for the reads of many, 0 for the count of cleaned contexts, and the
\* dictionary nothing was put in for the statistics.
SafeDefault(op) ==
    CASE op \in {"store_context", "delete_context", "store_message",
                 "store_conversation", "store_agent"} -> FALSE
      [] op \in {"retrieve_context", "get_conversation", "get_agent",
                 "retrieve_contexts_by_type"} -> {}
      [] op = "cleanup_expired_contexts" -> 0
      [] op = "get_statistics" -> Empty

\* C20: while the storage raises, a method of the MemoryStore returns its
\* default and leaves the four tables as they were; no call of a manager or
\* of the server raises, process_message still answers with one response,
\* and the tables are the ones the storage failed with.
C20_StorageFailureIsContained ==
    db_down =>
        /\ last.op = "store_call" =>
              /\ last.r = SafeDefault(last.call.op)
              /\ Tables(Cur) = last.tables_before
        /\ "raised" \in DOMAIN last => ~last.raised
        /\ last.op = "process_message" => Cardinality(last.r) = 1
        /\ Tables(Cur) = hist.tables_when_failed

\* The store is asked to clean up while the storage raises and an expired
\* context is in the table.
C20_Witness ==
    /\ db_down
    /\ last.op = "store_call"
    /\ last.call.op = "cleanup_expired_contexts"
    /\ \E i \in DOMAIN tbl_contexts : is_expired(tbl_contexts[i], clock)

\* The states the two gathered messages leave when processed one after the
\* other, in either order, from the state they were gathered in.
SerialOutcomes ==
    {process_message(process_message(b, gathered.raws[o[1]], clock).s,
                     gathered.raws[o[2]], clock).s :
        b \in gathered.base, o \in {<<1, 2>>, <<2, 1>>}}

\* Both gathered coroutines have returned.
AllReturned == gathered.pc = <<"done", "done">>

MessagesOf(X) ==
    {i \in DOMAIN tbl_messages : tbl_messages[i].conversation_id = X}

\* The last call was process_message for a decoded message that carries a
\* conversation id and an id no persisted message has.
NewMessageOfConversation ==
    /\ last.op = "process_message"
    /\ from_dict(last.raw, clock).ok
    /\ last.raw.d.conversation_id # NoConv
    /\ last.raw.d.id \notin last.ids_before

C23_MessageHasItsConversation ==
    \A i \in DOMAIN tbl_messages :
        CV_get_conversation(Cur, tbl_messages[i].conversation_id).r # {}

\* The last call was process_message for a conversation_end message whose
\* handler answered that the conversation it names was not found.
EndOfMissingConversation ==
    /\ last.op = "process_message"
    /\ last.handled
    /\ last.raw.d.type = "conversation_end"
    /\ \E r \in last.r :
          ~r.success /\ r.response_data.message = "Conversation not found"

\* C24 as stated: a conversation_end message that fails because the named
\* conversation does not exist creates no conversation; the conversations
\* in cache and store are the same before and after process_message.
C24_FailedEndCreatesNothing ==
    EndOfMissingConversation =>
        AllConversations(Cur) = last.conversations_before

\* C24 amended: such a message creates no conversation exactly when its
\* envelope carries no conversation id or the id of an existing
\* conversation; when the envelope carries an unknown conversation id, the
\* history step of process_message creates one new conversation, in the
\* cache and in the store, with the sender as participant.
C24_FailedEndCreatesOnlyForEnvelope ==
    EndOfMissingConversation =>
        IF \/ last.raw.d.conversation_id = NoConv
           \/ last.raw.d.conversation_id \in last.conversations_before
        THEN AllConversations(Cur) = last.conversations_before
        ELSE \E c \in (DOMAIN active_conversations) \cap (DOMAIN tbl_conversations) :
                /\ AllConversations(Cur) = last.conversations_before \cup {c}
                /\ c \notin last.conversations_before
                /\ InSeq(last.raw.d.sender_id, active_conversations[c].participants)
                /\ InSeq(last.raw.d.sender_id, tbl_conversations[c].participants)

\* A conversation_end message named a missing conversation in its envelope,
\* was answered "Conversation not found", and a conversation was created.
C24_Witness ==
    /\ EndOfMissingConversation
    /\ last.raw.d.conversation_id = ClientConv
    /\ "conversation_id" \notin DOMAIN last.raw.d.payload.f
    /\ AllConversations(Cur) # last.conversations_before

\* The last call was process_message for a memory_retrieve message with a
\* mapping as payload, answered by its handler.
MemoryRetrieved ==
    /\ last.op = "process_message"
    /\ last.handled
    /\ last.raw.d.type = "memory_retrieve"
    /\ last.raw.d.payload.is_mapping

\* The handler's response.
Response == CHOOSE r \in last.r : TRUE

\* The response is a success that carries exactly the live context id.
AnswersContext(id) ==
    /\ Response.success
    /\ \E c \in last.live_before :
          c.context_id = id /\ Response.response_data.context = {ContextView(c)}
    /\ Response.response_data.contexts = <<>>

\* The response is a success that carries every live context of the type,
\* each once, and no other.
AnswersType(ty) ==
    /\ Response.success
    /\ Response.response_data.context = {}
    /\ \A c \in {x \in last.live_before : x.context_type = ty} :
          Count(Response.response_data.contexts, ContextView(c)) = 1
    /\ \A i \in DOMAIN Response.response_data.contexts :
          \E c \in last.live_before :
             c.context_type = ty /\ Response.response_data.contexts[i] = ContextView(c)

\* Some live context has the id.
IsLive(id) == \E c \in last.live_before : c.context_id = id

\* C25 as stated: memory_retrieve with a payload context_id returns exactly
\* that context on success and success=false when it is unknown or expired,
\* whatever memory_type is; with only memory_type it returns success=true
\* with all non-expired contexts of that type; with neither it returns
\* success=false.
C25_RetrieveByKeys ==
    MemoryRetrieved =>
        With(last.raw.d.payload.f, LAMBDA p :
          IF "context_id" \in DOMAIN p
          THEN IF IsLive(p.context_id) THEN AnswersContext(p.context_id)
               ELSE ~Response.success
          ELSE IF "memory_type" \in DOMAIN p THEN AnswersType(p.memory_type)
               ELSE ~Response.success)

\* C25 amended: the same, where a context_id or memory_type that is null or
\* the empty string counts as not given: memory_retrieve with a non-empty
\* context_id returns exactly that context, or success=false when it is
\* unknown or expired, whatever memory_type is; with no context_id and a
\* non-empty memory_type it returns success=true with all non-expired
\* contexts of that type; with neither it returns success=false.
C25_RetrieveByValues ==
    MemoryRetrieved =>
        With(last.raw.d.payload.f, LAMBDA p :
          IF Get(p, "context_id", NoCtx) # NoCtx
          THEN IF IsLive(p.context_id) THEN AnswersContext(p.context_id)
               ELSE ~Response.success
          ELSE IF Get(p, "memory_type", "") # "" THEN AnswersType(p.memory_type)
               ELSE ~Response.success)

\* A memory_retrieve that names a live context and a type of which another
\* live context exists was answered with the named context alone.
C25_Witness ==
    /\ MemoryRetrieved
    /\ {"context_id", "memory_type"} \subseteq DOMAIN last.raw.d.payload.f
    /\ last.raw.d.payload.f.memory_type = "general"
    /\ AnswersContext(last.raw.d.payload.f.context_id)
    /\ \E c \in last.live_before :
          c.context_type = "general" /\ c.context_id # last.raw.d.payload.f.context_id

\* The ids of the conversation-typed contexts of the table f whose data name
\* the conversation C.
ContextsOf(f, C) ==
    {i \in DOMAIN f : /\ f[i].context_type = "conversation"
                      /\ f[i].data.shape = "mapping"
                      /\ f[i].data.conversation_id = C}

\* The conversation cv and the contexts of the table f are what a
\* conversation_start with the payload p of the sender makes for C.
StartedAs(cv, f, C, p, sender) ==
    /\ cv.conversation_id = C
    /\ cv.title = Get(p, "title", <<"started_by", sender>>)
    /\ cv.participants =
          Get(p, "participants", [is_list |-> TRUE, v |-> <<sender>>]).v
    /\ \E i \in DOMAIN f :
          /\ ContextsOf(f, C) = {i}
          /\ f[i].metadata.shared_with = cv.participants
          /\ f[i].expires_at = {}

\* A conversation-typed context without expiry stays what it is, in cache
\* and store, in every step but its own delete_context.
PermanentUntilDeleted ==
    \A i \in (DOMAIN active_contexts) \cap (DOMAIN tbl_contexts) :
        (/\ active_contexts[i].context_type = "conversation"
         /\ active_contexts[i].expires_at = {}
         /\ tbl_contexts[i].expires_at = {}
         /\ ~(last'.op = "delete_context" /\ last'.id = i))
        => /\ i \in (DOMAIN active_contexts') \cap (DOMAIN tbl_contexts')
           /\ active_contexts'[i].context_type = "conversation"
           /\ active_contexts'[i].expires_at = {}
           /\ tbl_contexts'[i].expires_at = {}
           /\ active_contexts'[i].data.conversation_id =
                 active_contexts[i].data.conversation_id

\* C26: after a successful conversation_start that returns C there is a
\* conversation C with the given title and participants, in cache and
\* store, and exactly one conversation-typed context whose data name C,
\* shared with the participants and without expiry; no step other than
\* delete_context of that context removes it, however much time passes and
\* whatever is cleaned up.
C26_CompanionContext ==
    /\ []((/\ last.op = "process_message"
            /\ last.handled
            /\ last.raw.d.type = "conversation_start") =>
           \A r \in last.r : r.success =>
               \E C \in r.response_data.conversation_id :
                  /\ C \in (DOMAIN active_conversations) \cap (DOMAIN tbl_conversations)
                  /\ StartedAs(active_conversations[C], active_contexts, C,
                               last.raw.d.payload.f, last.raw.d.sender_id)
                  /\ StartedAs(tbl_conversations[C], tbl_contexts, C,
                               last.raw.d.payload.f, last.raw.d.sender_id))
    /\ [][PermanentUntilDeleted]_vars

\* A cleanup removed an expired context while the context of a conversation
\* started more than a minute ago, its title and participants given, is
\* still in cache and store.
C26_Witness ==
    /\ last.op = "cleanup_expired_contexts"
    /\ last.r >= 1
    /\ \E C \in DOMAIN tbl_conversations :
          /\ tbl_conversations[C].title = <<"given", "T">>
          /\ tbl_conversations[C].created_at + 1 < clock
          /\ \E i \in ContextsOf(tbl_contexts, C) \cap ContextsOf(active_contexts, C) :
                /\ tbl_contexts[i].expires_at = {}
                /\ tbl_contexts[i].metadata.shared_with = <<"A", "B">>

\* C27: a conversation_message always yields success=true, and when its
\* conversation_id names a conversation that has a companion context (the
\* conversation-typed context conversation_start made for it), that
\* context's data afterwards have last_message_from equal to the sender and
\* last_message_at equal to the message timestamp, in cache and store.
C27_ConversationMessageSucceeds ==
    (/\ last.op = "process_message"
     /\ last.handled
     /\ last.raw.d.type = "conversation_message") =>
        /\ \A r \in last.r : r.success
        /\ \A f \in {active_contexts, tbl_contexts} :
              \A i \in ContextsOf(f, last.raw.d.conversation_id) :
                 f[i].data.started_by # "" =>
                    /\ f[i].data.last_message_from = last.raw.d.sender_id
                    /\ f[i].data.last_message_at # {}

\* C28: get_contexts() called with no type returns every non-expired
\* context whatever its type, those of caller-defined types included, each
\* exactly once, and no other context.
C28_GetContextsReturnsAll ==
    (last.op = "get_contexts" /\ last.context_type = "") =>
        /\ \A c \in last.live_before :
              Cardinality({i \in DOMAIN last.r :
                              last.r[i].context_id = c.context_id}) = 1
        /\ \A i \in DOMAIN last.r :
              \E c \in last.live_before : last.r[i] = ContextListing(c)

\* What a step that is a call of update_agent_status does.
UpdateAgentStatusStep ==
    last'.op = "update_agent_status" =>
        IF last'.agent \notin DOMAIN registered_agents
        THEN /\ ~last'.r
             /\ registered_agents' = registered_agents
             /\ tbl_agents' = tbl_agents
        ELSE /\ last'.r
             /\ tbl_agents' =
                   Put(tbl_agents, last'.agent,
                       [registered_agents[last'.agent] EXCEPT
                           !.status = last'.status, !.last_seen = clock])
             /\ registered_agents' =
                   Put(registered_agents, last'.agent, tbl_agents'[last'.agent])

\* C29: update_agent_status(id, ...) returns false and changes neither
\* cache nor store when the agent is not in the cache, even if the store
\* has a record of it; when the agent is in the cache, as it is once
\* get_agent(id) has loaded it, the call returns true and the new status and
\* last_seen are in the cache and persisted.
C29_UpdateNeedsCachedAgent == [][UpdateAgentStatusStep]_vars

\* update_agent_status was refused for a stored agent that was not in the
\* cache, get_agent loaded the agent, and at a later time the same call
\* returned true and persisted the status and last_seen.
C29_Witness ==
    /\ last.op = "update_agent_status"
    /\ last.r
    /\ last.loaded
    /\ last.refused_before
    /\ clock > 0
    /\ tbl_agents[last.agent].status = last.status
    /\ tbl_agents[last.agent].last_seen = clock

\* What a step does to the agents: no step removes a record from the store;
\* unregister_agent leaves the store alone and removes the agent, and no
\* other, from the cache; get_agent of a stored agent that is not in the
\* cache returns the stored record and puts it in the cache.
AgentRecordsStep ==
    /\ \A a \in DOMAIN tbl_agents : a \in DOMAIN tbl_agents'
    /\ last'.op = "unregister_agent" =>
          /\ tbl_agents' = tbl_agents
          /\ registered_agents' = Del(registered_agents, last'.agent)
          /\ last'.r = (last'.agent \in DOMAIN registered_agents)
    /\ (/\ last'.op = "get_agent"
        /\ last'.agent \in DOMAIN tbl_agents
        /\ last'.agent \notin DOMAIN registered_agents) =>
          /\ last'.r = {tbl_agents[last'.agent]}
          /\ registered_agents' =
                Put(registered_agents, last'.agent, tbl_agents[last'.agent])
          /\ tbl_agents' = tbl_agents

\* C30: unregister_agent(id) removes the agent from the cache only, the
\* persisted record is unchanged, no operation ever deletes an agent record
\* from the store, and a later get_agent(id) returns the agent and puts it
\* back in the cache.
C30_UnregisterKeepsRecord == [][AgentRecordsStep]_vars

\* An agent this manager registered and then unregistered was looked up:
\* get_agent found it in the store and it is in the cache again.
C30_Witness ==
    /\ last.op = "get_agent"
    /\ last.from_store
    /\ last.agent \in hist.registered
    /\ last.r = {tbl_agents[last.agent]}
    /\ last.agent \in DOMAIN registered_agents

\* The copy of context id that retrieve_context looks at: the cached one,
\* the stored one when none is cached.
Found(id) ==
    IF id \in DOMAIN active_contexts THEN {active_contexts[id]}
    ELSE {tbl_contexts[i] : i \in (DOMAIN tbl_contexts) \cap {id}}

\* What a step that is a retrieve_context of an expired context does.
RetrieveExpiredStep ==
    (/\ last'.op = "retrieve_context"
     /\ \E c \in Found(last'.id) : is_expired(c, clock)) =>
        /\ last'.r = {}
        /\ last'.id \notin DOMAIN active_contexts'
        /\ last'.id \notin DOMAIN tbl_contexts'

\* C31: when retrieve_context(id) finds the context expired, in the cache
\* or in the store, it returns None and afterwards the context is in
\* neither the cache nor the store.
C31_ExpiredIsEvicted == [][RetrieveExpiredStep]_vars

\* retrieve_context answered None for a stored context that had expired
\* and was not in the cache of a restarted server; it is in neither the
\* cache nor the store now.
C31_Witness ==
    /\ last.op = "retrieve_context"
    /\ last.r = {}
    /\ last.id \in DOMAIN hist.stored
    /\ hist.stored[last.id].expires_in_minutes # {}
    /\ last.id \notin last.expired_before
    /\ last.id \notin last.gone_before
    /\ last.id \notin (DOMAIN active_contexts) \cup (DOMAIN tbl_contexts)


\* The copy of an entity a listing is to return: the cached one if there is
\* one, else the stored one.
Preferred(cache, table, id) == IF id \in DOMAIN cache THEN cache[id] ELSE table[id]

\* The list holds, for every id of the set, the preferred copy exactly once,
\* and nothing else.
ListsExactly(list, ids, cache, table) ==
    /\ \A id \in ids :
          Cardinality({i \in DOMAIN list : list[i] = Preferred(cache, table, id)}) = 1
    /\ Len(list) = Cardinality(ids)

\* What a step that is a call of a listing operation returns.
ListingStep ==
    /\ last'.op = "list_conversations" =>
          ListsExactly(last'.r,
              {id \in DOMAIN active_conversations \cup DOMAIN tbl_conversations :
                  \/ last'.participant_id = ""
                  \/ InSeq(last'.participant_id,
                           Preferred(active_conversations, tbl_conversations,
                                     id).participants)},
              active_conversations, tbl_conversations)
    /\ last'.op = "list_agents" =>
          ListsExactly(last'.r,
              {id \in DOMAIN registered_agents \cup DOMAIN tbl_agents :
                  With(Preferred(registered_agents, tbl_agents, id), LAMBDA a :
                      /\ last'.agent_type = "" \/ a.agent_type = last'.agent_type
                      /\ last'.status = "" \/ a.status = last'.status)},
              registered_agents, tbl_agents)
    /\ last'.op = "retrieve_contexts_by_type" =>
          ListsExactly(last'.r,
              {id \in DOMAIN active_contexts \cup DOMAIN tbl_contexts :
                  With(Preferred(active_contexts, tbl_contexts, id), LAMBDA c :
                      /\ c.context_type = last'.context_type
                      /\ ~is_expired(c, clock))},
              active_contexts, tbl_contexts)

\* C32: retrieve_contexts_by_type, list_agents and list_conversations each
\* return every matching entity that is in the cache or in the store exactly
\* once, the cached copy when there is one, and so no id twice.
C32_ListingsAreComplete == [][ListingStep]_vars


\* The stored conversations the participant filter of the store lets through.
StoredMatching(participant_id) ==
    {c \in {tbl_conversations[i] : i \in DOMAIN tbl_conversations} :
        participant_id = "" \/ InSeq(participant_id, c.participants)}

\* What a step that is a call of list_conversations returns: all cached
\* conversations of the participant, and of the stored ones that are not
\* cached those among the ListLimit latest updated stored conversations of
\* the participant.
ListConversationsStep ==
    last'.op = "list_conversations" =>
      With(last'.participant_id, LAMBDA p :
        /\ \A id \in DOMAIN active_conversations :
              Cardinality({i \in DOMAIN last'.r :
                              last'.r[i].conversation_id = id}) =
                  IF p = "" \/ InSeq(p, active_conversations[id].participants)
                  THEN 1 ELSE 0
        /\ \A c \in StoredMatching(p) :
              c.conversation_id \notin DOMAIN active_conversations =>
                /\ Cardinality({i \in DOMAIN last'.r :
                                   last'.r[i].conversation_id = c.conversation_id}) =
                       IF c \in Range(last'.r) THEN 1 ELSE 0
                /\ c \in Range(last'.r) =>
                       Cardinality({d \in StoredMatching(p) :
                                       d.updated_at > c.updated_at}) < ListLimit
                /\ Cardinality({d \in StoredMatching(p) \ {c} :
                                   d.updated_at >= c.updated_at}) < ListLimit
                       => c \in Range(last'.r)
        /\ \A i \in DOMAIN last'.r :
              \/ /\ last'.r[i].conversation_id \in DOMAIN active_conversations
                 /\ last'.r[i] = active_conversations[last'.r[i].conversation_id]
              \/ /\ last'.r[i].conversation_id \notin DOMAIN active_conversations
                 /\ last'.r[i] \in StoredMatching(p))

\* What a step that is a call of list_agents or retrieve_contexts_by_type
\* returns.
ListAgentsOrContextsStep ==
    last'.op \in {"list_agents", "retrieve_contexts_by_type"} => ListingStep

\* C32 as the code has it: no listing returns an id twice and the cached
\* copy is the one returned; retrieve_contexts_by_type and list_agents return
\* every matching entity of cache and store, list_conversations every cached
\* one and the stored ones among the ListLimit latest updated of the store.
C32_ListingsWithinStoreLimit ==
    [][ListConversationsStep /\ ListAgentsOrContextsStep]_vars

\* list_conversations has been called on a store of more conversations than
\* the store lists, with a cached conversation among them: the list has
\* a cached and a stored conversation and leaves a stored one out.
C32_Witness ==
    /\ last.op = "list_conversations"
    /\ Cardinality(StoredMatching(last.participant_id)) > ListLimit
    /\ \E i \in DOMAIN last.r :
          last.r[i].conversation_id \in
              DOMAIN active_conversations \cap DOMAIN tbl_conversations
    /\ \E i \in DOMAIN last.r :
          last.r[i].conversation_id \notin DOMAIN active_conversations
    /\ \E c \in StoredMatching(last.participant_id) : c \notin Range(last.r)


\* The instant a timestamp with a UTC offset stands for.
Instant(m) == m.timestamp - CHOOSE k \in m.utcoffset : TRUE

\* C33: get_conversation_messages(conversation_id, limit) returns only
\* messages stored with that conversation_id, at most limit of them, in
\* ascending order of the timestamps the messages carry: of two returned
\* messages whose timestamps have a UTC offset the one that stands for the
\* earlier instant comes first, and of two without offset the one of the
\* earlier reading.
C33_HistoryInTimestampOrder ==
    last.op = "get_conversation_messages" =>
        /\ Len(last.r) <= last.limit
        /\ \A i \in DOMAIN last.r :
              /\ last.r[i] \in DOMAIN tbl_messages
              /\ tbl_messages[last.r[i]].conversation_id = last.id
        /\ \A i, j \in DOMAIN last.r :
              i < j =>
                With(tbl_messages[last.r[i]], LAMBDA a :
                With(tbl_messages[last.r[j]], LAMBDA b :
                  /\ (a.utcoffset # {} /\ b.utcoffset # {}) =>
                        Instant(a) <= Instant(b)
                  /\ (a.utcoffset = {} /\ b.utcoffset = {}) =>
                        a.timestamp <= b.timestamp))


\* The sharing metadata of a context.
Sharing(c) == [shared_with |-> c.metadata.shared_with,
               last_shared |-> c.metadata.last_shared]

\* share_context_with_agent is called for a context that is missing or
\* expired, or for an agent that is neither cached nor stored.
ShareOfUnresolved ==
    /\ last'.op = "share_context_with_agent"
    /\ \/ \A c \in Copies(Cur, last'.context_id) : is_expired(c, clock)
       \/ ~Resolvable(Cur, last'.agent_id)

\* Such a call answers false, and every context there is after it, in the
\* cache and in the store, has the sharing metadata it had before.
ShareOfUnresolvedStep ==
    ShareOfUnresolved =>
        /\ ~last'.r
        /\ \A i \in DOMAIN active_contexts' :
              \E c \in Copies(Cur, i) : Sharing(active_contexts'[i]) = Sharing(c)
        /\ \A i \in DOMAIN tbl_contexts' :
              /\ i \in DOMAIN tbl_contexts
              /\ Sharing(tbl_contexts'[i]) = Sharing(tbl_contexts[i])
        /\ \A i \in DOMAIN active_contexts \cap DOMAIN active_contexts' :
              Sharing(active_contexts'[i]) = Sharing(active_contexts[i])

\* C34: share_context_with_agent(context_id, agent_id) returns false and
\* leaves shared_with and last_shared of the context unchanged in cache and
\* store when the context is missing or expired, or when the agent is in
\* neither the cache nor the store.
C34_RefusedShareChangesNothing == [][ShareOfUnresolvedStep]_vars

\* A share with a registered agent was refused because the stored context
\* has expired.
C34_Witness ==
    /\ last.op = "share_context_with_agent"
    /\ ~last.r
    /\ last.agent_id \in DOMAIN registered_agents
    /\ last.context_id \in DOMAIN last.before.tbl_contexts
    /\ is_expired(last.before.tbl_contexts[last.context_id], clock)

\* A share of a live context was refused because the agent is unknown.
C34_WitnessUnknownAgent ==
    /\ last.op = "share_context_with_agent"
    /\ ~last.r
    /\ last.agent_id \notin DOMAIN registered_agents \cup DOMAIN tbl_agents
    /\ last.context_id \in DOMAIN active_contexts \cap DOMAIN tbl_contexts
    /\ ~is_expired(active_contexts[last.context_id], clock)


\* What a step that is a call of get_agent_contexts returns: every context of
\* cache or store that has not expired and has the agent in shared_with,
\* once, and nothing else.
GetAgentContextsStep ==
    last'.op = "get_agent_contexts" =>
        ListsExactly(last'.r,
            {id \in DOMAIN active_contexts \cup DOMAIN tbl_contexts :
                With(Preferred(active_contexts, tbl_contexts, id), LAMBDA c :
                    /\ ~is_expired(c, clock)
                    /\ InSeq(last'.agent_id, c.metadata.shared_with))},
            active_contexts, tbl_contexts)

\* C35: get_agent_contexts(agent) returns only non-expired contexts whose
\* shared_with contains the agent, and every non-expired context that has
\* not been deleted and was shared with the agent by share_context_with_agent
\* or create_conversation_context, whatever its type.
C35_AgentContextsOfEveryType == [][GetAgentContextsStep]_vars


\* What any step does to the messages table: the rows there are stay as
\* they are, and a direct store_message of an id that has a row answers
\* false.
MessageRowsStep ==
    /\ \A id \in DOMAIN tbl_messages :
          /\ id \in DOMAIN tbl_messages'
          /\ tbl_messages'[id] = tbl_messages[id]
    /\ (/\ last'.op = "store_call"
        /\ last'.call.op = "store_message"
        /\ last'.call.arg \in DOMAIN tbl_messages) => last'.r = FALSE

\* C36: MemoryStore.store_message never updates: storing a message whose id
\* has a row returns false and leaves the row as it is, so no message of a
\* conversation's history is altered by the messages processed later.
C36_StoredMessagesAreFinal == [][MessageRowsStep]_vars

\* store_message was refused for the id of a message that is in the history
\* of a conversation.
C36_Witness ==
    /\ last.op = "store_call"
    /\ last.call.op = "store_message"
    /\ ~db_down
    /\ last.r = FALSE
    /\ last.call.arg \in DOMAIN tbl_messages
    /\ tbl_messages[last.call.arg].conversation_id = ClientConv

\* A conversation message was processed that has the id of a stored message
\* of another sender.
C36_WitnessProcessed ==
    /\ last.op = "process_message"
    /\ ~db_down
    /\ last.raw.d.conversation_id = ClientConv
    /\ last.raw.d.id \in DOMAIN tbl_messages
    /\ tbl_messages[last.raw.d.id].sender_id # last.raw.d.sender_id


\* No element of the list is in it twice.
NoDuplicates(list) ==
    \A i, j \in DOMAIN list : list[i] = list[j] => i = j

\* C37: no conversation, cached or stored, started by conversation_start or
\* auto-created, has the same agent id twice in its participant list.
C37_ParticipantsAreDistinct ==
    \A f \in {active_conversations, tbl_conversations} :
        \A id \in DOMAIN f : NoDuplicates(f[id].participants)


\* C38: store_context sets expires_at to the creation time plus N minutes
\* for every integer expires_in_minutes = N it is given, N = 0 included, and
\* leaves it unset only when expires_in_minutes is absent; the context it
\* returns is the one it has cached and stored.
C38_ExpirySetForEveryN ==
    last.op = "store_context" =>
        With(hist.stored[last.r.context_id], LAMBDA call :
            /\ last.r.expires_at =
                   {call.created_at + n : n \in call.expires_in_minutes}
            /\ last.r.created_at = call.created_at
            /\ active_contexts[last.r.context_id] = last.r
            /\ tbl_contexts[last.r.context_id] = last.r)


\* C39: while the store does not fail, every cached context that has not
\* expired has a row of its id with the same type, data and metadata: what
\* share_context_with_agent and update_conversation_context change in a
\* cached context is in its row as well.
C39_CacheAgreesWithStore ==
    \A id \in DOMAIN active_contexts :
        ~is_expired(active_contexts[id], clock) =>
            /\ id \in DOMAIN tbl_contexts
            /\ tbl_contexts[id].context_type = active_contexts[id].context_type
            /\ tbl_contexts[id].data = active_contexts[id].data
            /\ tbl_contexts[id].metadata = active_contexts[id].metadata


\* The ids of the stored conversations that are archived.
Archived == {id \in DOMAIN tbl_conversations :
                tbl_conversations[id].status = "archived"}

\* What any step does to an archived conversation: its row stays, archived,
\* and so is the cached copy if there is one; get_conversation returns it
\* as archived.
ArchivedStaysStep ==
    /\ \A id \in Archived :
          /\ id \in DOMAIN tbl_conversations'
          /\ tbl_conversations'[id].status = "archived"
          /\ id \in DOMAIN active_conversations' =>
                active_conversations'[id].status = "archived"
    /\ (last'.op = "get_conversation" /\ last'.id \in Archived) =>
          /\ last'.r # {}
          /\ \A c \in last'.r :
                c.conversation_id = last'.id /\ c.status = "archived"

\* The archived conversations a call of list_conversations is to return.
ArchivedMatching(p) ==
    {id \in Archived :
        p = "" \/ InSeq(p, Preferred(active_conversations, tbl_conversations,
                                     id).participants)}

ListedArchived(list, id) ==
    \E i \in DOMAIN list :
        list[i].conversation_id = id /\ list[i].status = "archived"

\* C40: an archived conversation is never deleted and never active again:
\* after any messages and operations get_conversation(id) returns it with
\* status 'archived', and so does every list_conversations whose participant
\* filter it passes.
C40_ArchivedStaysListed ==
    [][/\ ArchivedStaysStep
       /\ last'.op = "list_conversations" =>
             \A id \in ArchivedMatching(last'.participant_id) :
                 ListedArchived(last'.r, id)]_vars

\* C40 as the code has it: the same, except that list_conversations is
\* only sure to return an archived conversation that is cached or among the
\* ListLimit latest updated stored conversations the filter lets through.
C40_ArchivedStaysArchived ==
    [][/\ ArchivedStaysStep
       /\ last'.op = "list_conversations" =>
             \A id \in ArchivedMatching(last'.participant_id) :
                 (\/ id \in DOMAIN active_conversations
                  \/ Cardinality({d \in StoredMatching(last'.participant_id) :
                         d.conversation_id # id
                         /\ d.updated_at >= tbl_conversations[id].updated_at})
                        < ListLimit)
                 => ListedArchived(last'.r, id)]_vars

\* The conversation archived in an earlier run has been sent a message and
\* get_conversation has returned it, archived, with the sender among its
\* participants.
C40_Witness ==
    /\ last.op = "get_conversation"
    /\ last.id = ConvUuid(StoredBefore)
    /\ \E c \in last.r : c.status = "archived" /\ InSeq("B", c.participants)
    /\ \E m \in DOMAIN tbl_messages : tbl_messages[m].conversation_id = last.id

====
